---- MODULE Spec2Model ----
(***************************************************************************)
(* Model of the MCP demo server: the bearer-token gate (auth.ts), the      *)
(* authorization policy and its configuration (config.ts), the session     *)
(* registry (sessionManager.ts) and the HTTP wiring (server.ts).           *)
(*                                                                         *)
(* Strings whose letters matter (roles, scopes, configuration values, the  *)
(* Authorization header) are sequences of one-character strings, so that   *)
(* toLowerCase, split and startsWith are computed and not assumed.         *)
(* An optional value (undefined | v) is the sequence <<>> or <<v>>.        *)
(***************************************************************************)
EXTENDS Integers, Sequences, FiniteSets, TLC

\* ------------------------------------------------------------------ bounds
\* Number of request slots that may be in flight at once.
MaxReq == 2
\* Number of sessions (contexts) the registry may create in one run.
\* requests one client sends within one window of the rate limiter
MaxHits == 4
MaxCtx == 2

\* ------------------------------------------------------------ JS strings
None == <<>>
Some(v) == <<v>>
IsSome(o) == Len(o) > 0
Val(o) == o[1]

Range(s) == {s[i] : i \in 1..Len(s)}

UpperChars == <<"A","B","C","D","E","F","G","H","I","J","K","L","M",
                "N","O","P","Q","R","S","T","U","V","W","X","Y","Z">>
LowerChars == <<"a","b","c","d","e","f","g","h","i","j","k","l","m",
                "n","o","p","q","r","s","t","u","v","w","x","y","z">>

\* String.prototype.toLowerCase, one character
toLowerCaseChar(c) ==
  IF \E i \in 1..Len(UpperChars) : UpperChars[i] = c
  THEN LowerChars[CHOOSE i \in 1..Len(UpperChars) : UpperChars[i] = c]
  ELSE c

\* String.prototype.toLowerCase
toLowerCase(s) == [i \in 1..Len(s) |-> toLowerCaseChar(s[i])]

\* the characters matched by \s that the inputs use
WhiteSpace == {" ", "\t"}
\* the characters matched by [,\s]
CommaOrSpace == WhiteSpace \cup {","}

RECURSIVE SplitWalk(_, _, _, _, _)
SplitWalk(s, sep, i, cur, acc) ==
  IF i > Len(s) THEN Append(acc, cur)
  ELSE IF s[i] \in sep
       THEN IF i < Len(s) /\ s[i+1] \in sep
            THEN SplitWalk(s, sep, i + 1, cur, acc)
            ELSE SplitWalk(s, sep, i + 1, <<>>, Append(acc, cur))
       ELSE SplitWalk(s, sep, i + 1, Append(cur, s[i]), acc)

\* String.prototype.split(/[sep]+/): a run of separators separates once; a
\* leading or trailing run yields an empty first or last item; "" yields [""].
Split(s, sep) == SplitWalk(s, sep, 1, <<>>, <<>>)

\* Array.prototype.filter(Boolean) on an array of strings
FilterBoolean(arr) == SelectSeq(arr, LAMBDA x : x # <<>>)

\* String.prototype.startsWith
StartsWith(s, p) == Len(s) >= Len(p) /\ SubSeq(s, 1, Len(p)) = p

\* String.prototype.substring(n) (n is 0-based)
Substring(s, n) == SubSeq(s, n + 1, Len(s))

\* ---------------------------------------------------------- configuration
defaultScopes == << <<"M","c","p",".","A","c","c","e","s","s">>,
                    <<"a","c","c","e","s","s","_","a","s","_","m","c","p">> >>
defaultRoles == << <<"M","c","p","S","e","r","v","e","r",".","I","n","v","o","k","e">>,
                   <<"M","c","p","S","e","r","v","e","r",".","R","e","a","d">>,
                   <<"M","c","p","S","e","r","v","e","r",".","W","r","i","t","e">> >>

\* mutant of toConfiguredSet: the items are kept as written
toConfiguredSet_KeepsCase(raw, fallback) ==
  LET items == IF IsSome(raw) /\ Val(raw) # <<>>
               THEN Split(Val(raw), CommaOrSpace)
               ELSE fallback
  IN Range(FilterBoolean(items))

\* toConfiguredSet(raw, fallback): raw is optional; an empty raw is falsy
toConfiguredSet(raw, fallback) ==
  LET items == IF IsSome(raw) /\ Val(raw) # <<>>
               THEN Split(Val(raw), CommaOrSpace)
               ELSE fallback
  IN {toLowerCase(x) : x \in Range(FilterBoolean(items))}

\* the configured audience (env.AUDIENCE) and another application's audience
Audience == "api://mcp"
OtherAudience == "api://other"

\* the tenant's v2 issuer (the only member of ISSUERS) and the v1 issuer
IssuerV2 == "https://login.microsoftonline.com/tenant/v2.0"
IssuerV1 == "https://sts.windows.net/tenant/"
ISSUERS == {IssuerV2}

\* env.RATE_LIMIT_MAX ?? 100
defaultRateLimitMax == 100
rateLimitMax(e) ==
  IF IsSome(e.RATE_LIMIT_MAX) THEN Val(e.RATE_LIMIT_MAX) ELSE defaultRateLimitMax

\* config as built from the environment
MakeConfig(e) ==
  [ audience |-> Audience,
    rateLimitMax |-> rateLimitMax(e),
    allowedScopes |-> toConfiguredSet(e.ALLOWED_SCOPES, defaultScopes),
    allowedRoles |-> toConfiguredSet(e.ALLOWED_ROLES, defaultRoles) ]


\* ------------------------------------------------------------------ tokens
\* The key ids each key-set endpoint publishes (Entra publishes several keys
\* per endpoint).  A public key is named by the key id it belongs to.
V2Keys == {"kA", "kB"}
V1Keys == {"kA", "kC"}

sInvoke == <<"M","c","p","S","e","r","v","e","r",".","I","n","v","o","k","e">>
sInvokeUpper == <<"M","C","P","S","E","R","V","E","R",".","I","N","V","O","K","E">>
sOther == <<"O","t","h","e","r",".","R","o","l","e">>
sMcpAccess == <<"M","c","p",".","A","c","c","e","s","s">>
sOpenidAccess == <<"o","p","e","n","i","d"," "," ","A","C","C","E","S","S","_","a","s","_","m","c","p">>
sOpenidProfile == <<"o","p","e","n","i","d"," ","p","r","o","f","i","l","e">>
sAccessComma == <<"M","c","p",".","A","c","c","e","s","s",",","x">>
sXy == <<"X",".","y">>
sZw == <<"o","p"," ","z",".","W">>

\* A decoded JWT: header (alg, kid), the key that really signed it, payload.
Jwt(alg, kid, signedBy, iss, aud, expired, roles, scp) ==
  [ alg |-> alg, kid |-> kid, signedBy |-> signedBy,
    payload |-> [ iss |-> iss, aud |-> aud, expired |-> expired,
                  roles |-> roles, scp |-> scp ] ]

Good(kid, roles, scp) == Jwt("RS256", Some(kid), kid, IssuerV2, Audience, FALSE, roles, scp)

\* The token texts the clients present; a text that is not listed here does
\* not have three dot-separated parts.
TokenNames == { "tRole", "tRoleUpper", "tScope", "tScopeOnly", "tNeither", "tEmpty",
                "tCommaScope", "tCustomRole", "tCustomScope", "tV1Key",
                "tUnknownKid", "tNoKid", "tBadSig", "tHS256", "tExpired",
                "tWrongAud", "tWrongAudNoRole", "tWrongIss" }

\* jwt.decode(token, {complete: true})
DecodeToken(t) ==
  CASE t = "tRole"        -> Good("kA", Some(<<sInvoke>>), None)
    [] t = "tRoleUpper"   -> Good("kA", Some(<<sOther, sInvokeUpper>>), Some(sOpenidProfile))
    [] t = "tScope"       -> Good("kA", None, Some(sMcpAccess))
    [] t = "tScopeOnly"   -> Good("kA", Some(<<sOther>>), Some(sOpenidAccess))
    [] t = "tNeither"     -> Good("kA", Some(<<sOther>>), Some(sOpenidProfile))
    [] t = "tEmpty"       -> Good("kA", None, None)
    [] t = "tCommaScope"  -> Good("kA", None, Some(sAccessComma))
    [] t = "tCustomRole"  -> Good("kA", Some(<<sXy>>), None)
    [] t = "tCustomScope" -> Good("kA", Some(<<>>), Some(sZw))
    [] t = "tV1Key"       -> Good("kC", Some(<<sInvoke>>), None)
    [] t = "tUnknownKid"  -> Jwt("RS256", Some("kX"), "kX", IssuerV2, Audience, FALSE, Some(<<sInvoke>>), None)
    [] t = "tNoKid"       -> Jwt("RS256", None, "kA", IssuerV2, Audience, FALSE, Some(<<sInvoke>>), None)
    [] t = "tBadSig"      -> Jwt("RS256", Some("kA"), "attacker", IssuerV2, Audience, FALSE, Some(<<sInvoke>>), None)
    [] t = "tHS256"       -> Jwt("HS256", Some("kA"), "kA", IssuerV2, Audience, FALSE, Some(<<sInvoke>>), None)
    [] t = "tExpired"     -> Jwt("RS256", Some("kA"), "kA", IssuerV2, Audience, TRUE, Some(<<sInvoke>>), None)
    [] t = "tWrongAud"    -> Jwt("RS256", Some("kA"), "kA", IssuerV2, OtherAudience, FALSE, Some(<<sInvoke>>), None)
    [] t = "tWrongAudNoRole" -> Jwt("RS256", Some("kA"), "kA", IssuerV2, OtherAudience, FALSE, Some(<<sOther>>), Some(sOpenidProfile))
    [] t = "tWrongIss"    -> Jwt("RS256", Some("kA"), "kA", IssuerV1, Audience, FALSE, Some(<<sInvoke>>), None)

\* a token text is one opaque blob
IsJwtText(token) == Len(token) = 1 /\ token[1] \in TokenNames

BearerPrefix == <<"B","e","a","r","e","r"," ">>
Bearer(t) == BearerPrefix \o <<t>>

\* Authorization header values that carry no usable bearer token
NoTokenHeaders ==
  { None,
    Some(<<>>),
    Some(BearerPrefix),
    Some(<<"B","e","a","r","e","r">>),
    Some(<<"b","e","a","r","e","r"," ","tRole">>),
    Some(<<"B","a","s","i","c"," ","tRole">>) }


\* ------------------------------------------------------------------- state
VARIABLES
  env,       \* process.env: the ALLOWED_SCOPES and ALLOWED_ROLES settings
  config,    \* config.ts: audience, allowedScopes, allowedRoles
  req,       \* per request slot: its inputs, its position, what the gate did
  res,       \* per request slot: the response (status, body, times sent)
  sessions,  \* sessionManager: the registry Map, session id -> context
  ctx,       \* the SessionContext objects created so far
  issued,    \* session ids the generator has produced
  closedIds, \* session ids whose session has been closed
  proc       \* the process: running, draining, closing, exited

vars == <<env, config, req, res, sessions, ctx, issued, closedIds, proc>>

Req == 1..MaxReq
Ctx == 1..MaxCtx

\* ------------------------------------------------------ authorization policy
\* mutant of authorize: both axes are required
authorize_BothAxes(claims) ==
  LET roles == IF IsSome(claims.roles) THEN Val(claims.roles) ELSE <<>>
      scopes == IF IsSome(claims.scp) THEN Split(Val(claims.scp), WhiteSpace) ELSE <<>>
      roleOk == \E r \in Range(roles) : toLowerCase(r) \in config.allowedRoles
      scopeOk == \E s \in Range(scopes) : toLowerCase(s) \in config.allowedScopes
  IN roleOk /\ scopeOk

\* authorize(claims), auth.ts
authorize(claims) ==
  LET roles == IF IsSome(claims.roles) THEN Val(claims.roles) ELSE <<>>
      scopes == IF IsSome(claims.scp) THEN Split(Val(claims.scp), WhiteSpace) ELSE <<>>
      roleOk == \E r \in Range(roles) : toLowerCase(r) \in config.allowedRoles
      scopeOk == \E s \in Range(scopes) : toLowerCase(s) \in config.allowedScopes
  IN roleOk \/ scopeOk

\* ---------------------------------------------------------- token verifier
NoErr == "ok"

\* jwt.verify before the key is asked for: the token text must decode
JwtMalformed(token) == ~IsJwtText(token)

\* mutant of JwtVerifyWithKey: the audience is not checked
JwtVerifyWithKey_AnyAudience(jwt, key) ==
  CASE jwt.alg # "RS256" -> "invalid algorithm"
    [] jwt.alg = "RS256" /\ jwt.signedBy # key -> "invalid signature"
    [] jwt.alg = "RS256" /\ jwt.signedBy = key /\ jwt.payload.expired -> "jwt expired"
    [] jwt.alg = "RS256" /\ jwt.signedBy = key /\ ~jwt.payload.expired
         /\ jwt.payload.iss \notin ISSUERS -> "jwt issuer invalid"
    [] OTHER -> NoErr

\* mutant of JwtVerifyWithKey: the expiry is not checked
JwtVerifyWithKey_NoExpiry(jwt, key) ==
  CASE jwt.alg # "RS256" -> "invalid algorithm"
    [] jwt.alg = "RS256" /\ jwt.signedBy # key -> "invalid signature"
    [] jwt.alg = "RS256" /\ jwt.signedBy = key
         /\ jwt.payload.aud # config.audience -> "jwt audience invalid"
    [] jwt.alg = "RS256" /\ jwt.signedBy = key
         /\ jwt.payload.aud = config.audience
         /\ jwt.payload.iss \notin ISSUERS -> "jwt issuer invalid"
    [] OTHER -> NoErr

\* jwt.verify once getKey has called back with a public key: algorithm,
\* signature, expiry, audience, issuer, in the library's order
JwtVerifyWithKey(jwt, key) ==
  CASE jwt.alg # "RS256" -> "invalid algorithm"
    [] jwt.alg = "RS256" /\ jwt.signedBy # key -> "invalid signature"
    [] jwt.alg = "RS256" /\ jwt.signedBy = key /\ jwt.payload.expired -> "jwt expired"
    [] jwt.alg = "RS256" /\ jwt.signedBy = key /\ ~jwt.payload.expired
         /\ jwt.payload.aud # config.audience -> "jwt audience invalid"
    [] jwt.alg = "RS256" /\ jwt.signedBy = key /\ ~jwt.payload.expired
         /\ jwt.payload.aud = config.audience
         /\ jwt.payload.iss \notin ISSUERS -> "jwt issuer invalid"
    [] OTHER -> NoErr

\* jwksClient.getSigningKey(kid) can answer with the key only if the endpoint
\* publishes that key id; without a key id it fails because the endpoint
\* publishes more than one key
CanResolve(keys, kid) == IsSome(kid) /\ Val(kid) \in keys


\* ------------------------------------------------------- requests, responses
IdleReq ==
  [ pc |-> "idle",       \* idle, gate, jwksV2, jwksV1, handler, awaitReady, forwarded, done
    auth |-> None,       \* req.headers.authorization
    sid |-> [type |-> "undefined"],  \* req.headers["mcp-session-id"]
    body |-> "none",     \* the JSON-RPC message: initialize, or any other call
    jwks |-> <<>>,       \* the key-set endpoints asked for this request, in order
    key |-> None,        \* the public key getKey called back with
    found |-> <<>>,      \* per key-set endpoint asked: it answered with the key
    verifyCalls |-> 0,   \* times jwt.verify was invoked
    policyCalls |-> 0,   \* times authorize was invoked
    nextCalls |-> 0,     \* times next() was called by the gate
    user |-> None,       \* req.user
    session |-> 0,       \* the context handleMcpRequest resolved or created
    fwd |-> 0,           \* the context whose transport.handleRequest got the request
    error |-> "none" ]   \* what the route handler caught: none, ready, transport

NoBody == [empty |-> TRUE]
IdleRes == [status |-> 0, body |-> NoBody, sent |-> 0]

\* res.status(code).json(body)
Send(s, code, body) == [status |-> code, body |-> body, sent |-> s.sent + 1]

BodyMissingToken == [error |-> "Missing bearer token"]
BodyInvalidToken(msg) == [error |-> "Invalid token", detail |-> msg]
\* mutant of BodyForbidden: the expected sets are swapped
BodyForbidden_SwappedExpected(claims) ==
  LET scopeList == IF IsSome(claims.scp)
                   THEN FilterBoolean(Split(Val(claims.scp), WhiteSpace)) ELSE <<>>
      roleList == IF IsSome(claims.roles) THEN Val(claims.roles) ELSE <<>>
  IN [ error |-> "Insufficient permissions",
       detail |-> [ roles |-> roleList,
                    scopes |-> scopeList,
                    expected |-> [ anyRoleIn |-> config.allowedScopes,
                                   anyScopeIn |-> config.allowedRoles ] ] ]

BodyForbidden(claims) ==
  LET scopeList == IF IsSome(claims.scp)
                   THEN FilterBoolean(Split(Val(claims.scp), WhiteSpace)) ELSE <<>>
      roleList == IF IsSome(claims.roles) THEN Val(claims.roles) ELSE <<>>
  IN [ error |-> "Insufficient permissions",
       detail |-> [ roles |-> roleList,
                    scopes |-> scopeList,
                    expected |-> [ anyRoleIn |-> config.allowedRoles,
                                   anyScopeIn |-> config.allowedScopes ] ] ]
BodySessionNotFound ==
  [ jsonrpc |-> "2.0", error |-> [code |-> -32001, message |-> "Session not found"], id |-> "null" ]
BodyInternal == [error |-> "Internal Server Error"]
BodyTransport(msg) == [jsonrpc |-> "2.0", error |-> [message |-> msg], id |-> "null"]
BodyResult == [jsonrpc |-> "2.0", result |-> "ok"]
BodyHealth == [ok |-> TRUE, mcp |-> "/mcp"]
BodyTooMany == [text |-> "Too many requests, please try again later."]

\* ------------------------------------------------------------ the auth gate
\* the token verifyBearer extracts from the Authorization header (null is None)
ExtractToken(h) ==
  LET auth == IF IsSome(h) THEN Val(h) ELSE <<>>
  IN IF StartsWith(auth, BearerPrefix) THEN Some(Substring(auth, 7)) ELSE None

\* mutant of NoToken: only a missing header counts, an empty token does not
NoToken_EmptyTokenPasses(tok) == ~IsSome(tok)

\* !token
NoToken(tok) == ~IsSome(tok) \/ Val(tok) = <<>>

\* mutant of VerifyCallback: after the 403 the request is handed on as well
VerifyCallback_RefusesAndProceeds(q, s, err, payload) ==
  IF err # NoErr
  THEN [ q |-> [q EXCEPT !.pc = "done"],
         s |-> Send(s, 401, BodyInvalidToken(err)) ]
  ELSE IF ~authorize(payload)
  THEN [ q |-> [q EXCEPT !.pc = "handler", !.policyCalls = @ + 1, !.nextCalls = @ + 1],
         s |-> Send(s, 403, BodyForbidden(payload)) ]
  ELSE [ q |-> [q EXCEPT !.pc = "handler", !.policyCalls = @ + 1,
                         !.user = Some(payload), !.nextCalls = @ + 1],
         s |-> s ]

\* mutant of VerifyCallback: the claims are attached before the policy decides
VerifyCallback_AttachesFirst(q, s, err, payload) ==
  IF err # NoErr
  THEN [ q |-> [q EXCEPT !.pc = "done"],
         s |-> Send(s, 401, BodyInvalidToken(err)) ]
  ELSE IF ~authorize(payload)
  THEN [ q |-> [q EXCEPT !.pc = "done", !.policyCalls = @ + 1, !.user = Some(payload)],
         s |-> Send(s, 403, BodyForbidden(payload)) ]
  ELSE [ q |-> [q EXCEPT !.pc = "handler", !.policyCalls = @ + 1,
                         !.user = Some(payload), !.nextCalls = @ + 1],
         s |-> s ]

\* mutant of VerifyCallback: the policy is not consulted
VerifyCallback_SkipsPolicy(q, s, err, payload) ==
  IF err # NoErr
  THEN [ q |-> [q EXCEPT !.pc = "done"],
         s |-> Send(s, 401, BodyInvalidToken(err)) ]
  ELSE [ q |-> [q EXCEPT !.pc = "handler", !.user = Some(payload), !.nextCalls = @ + 1],
         s |-> s ]

\* mutant of VerifyCallback: a verification error lets the request through
VerifyCallback_FailsOpen(q, s, err, payload) ==
  IF err # NoErr
  THEN [ q |-> [q EXCEPT !.pc = "handler", !.nextCalls = @ + 1], s |-> s ]
  ELSE IF ~authorize(payload)
  THEN [ q |-> [q EXCEPT !.pc = "done", !.policyCalls = @ + 1],
         s |-> Send(s, 403, BodyForbidden(payload)) ]
  ELSE [ q |-> [q EXCEPT !.pc = "handler", !.policyCalls = @ + 1,
                         !.user = Some(payload), !.nextCalls = @ + 1],
         s |-> s ]

\* mutant of VerifyCallback: a verification error is answered 403
VerifyCallback_ForbiddenOnError(q, s, err, payload) ==
  IF err # NoErr
  THEN [ q |-> [q EXCEPT !.pc = "done"],
         s |-> Send(s, 403, BodyInvalidToken(err)) ]
  ELSE IF ~authorize(payload)
  THEN [ q |-> [q EXCEPT !.pc = "done", !.policyCalls = @ + 1],
         s |-> Send(s, 403, BodyForbidden(payload)) ]
  ELSE [ q |-> [q EXCEPT !.pc = "handler", !.policyCalls = @ + 1,
                         !.user = Some(payload), !.nextCalls = @ + 1],
         s |-> s ]

\* the callback verifyBearer hands to jwt.verify: (err, decoded) => ...
\* q, s: the request and response so far; the result is the pair after it ran
VerifyCallback(q, s, err, payload) ==
  IF err # NoErr
  THEN [ q |-> [q EXCEPT !.pc = "done"],
         s |-> Send(s, 401, BodyInvalidToken(err)) ]
  ELSE IF ~authorize(payload)
  THEN [ q |-> [q EXCEPT !.pc = "done", !.policyCalls = @ + 1],
         s |-> Send(s, 403, BodyForbidden(payload)) ]
  ELSE [ q |-> [q EXCEPT !.pc = "handler", !.policyCalls = @ + 1,
                         !.user = Some(payload), !.nextCalls = @ + 1],
         s |-> s ]

TokenOf(q) == Val(ExtractToken(q.auth))
JwtOf(q) == DecodeToken(TokenOf(q)[1])

\* a request enters POST /mcp; the rate limiter let it through and its count
\* is not kept
Arrive(r, h, sid, body) ==
  /\ proc.state = "running"
  /\ req[r].pc = "idle"
  /\ req' = [req EXCEPT ![r] = [IdleReq EXCEPT !.pc = "gate", !.auth = h,
                                               !.sid = sid, !.body = body]]
  /\ res' = [res EXCEPT ![r] = IdleRes]
  /\ UNCHANGED <<env, config, sessions, ctx, issued, closedIds, proc>>

\* app.use(limiter): the request is the (hits + 1)-th of its client in the
\* window; it is refused when that number exceeds the limit
LimiterBlocks(hits) == hits + 1 > config.rateLimitMax

\* POST /mcp through the limiter, which counts every request of the client
LimitedArrive(r, h, sid, body) ==
  /\ proc.state = "running"
  /\ req[r].pc = "idle"
  /\ proc.hits < MaxHits
  /\ proc' = [proc EXCEPT !.hits = @ + 1]
  /\ IF LimiterBlocks(proc.hits)
     THEN /\ req' = [req EXCEPT ![r] = [IdleReq EXCEPT !.pc = "done", !.auth = h,
                                                      !.sid = sid, !.body = body]]
          /\ res' = [res EXCEPT ![r] = Send(IdleRes, 429, BodyTooMany)]
     ELSE /\ req' = [req EXCEPT ![r] = [IdleReq EXCEPT !.pc = "gate", !.auth = h,
                                                      !.sid = sid, !.body = body]]
          /\ res' = [res EXCEPT ![r] = IdleRes]
  /\ UNCHANGED <<env, config, sessions, ctx, issued, closedIds>>

\* GET /health: the limiter, then the route handler res.json({ok, mcp})
Health(r, h) ==
  /\ proc.state = "running"
  /\ req[r].pc = "idle"
  /\ proc.hits < MaxHits
  /\ proc' = [proc EXCEPT !.hits = @ + 1]
  /\ req' = [req EXCEPT ![r] = [IdleReq EXCEPT !.pc = "done", !.auth = h,
                                               !.body = "health"]]
  /\ res' = [res EXCEPT ![r] =
               IF LimiterBlocks(proc.hits) THEN Send(IdleRes, 429, BodyTooMany)
               ELSE Send(IdleRes, 200, BodyHealth)]
  /\ UNCHANGED <<env, config, sessions, ctx, issued, closedIds>>

\* the limiter's window (windowMs) ends: the counts start again
WindowReset ==
  /\ proc.state = "running"
  /\ proc.hits > 0
  /\ proc' = [proc EXCEPT !.hits = 0]
  /\ UNCHANGED <<env, config, req, res, sessions, ctx, issued, closedIds>>

\* verifyBearer up to the point where jwt.verify waits for getKey
VerifyBearer(r) ==
  /\ req[r].pc = "gate"
  /\ LET tok == ExtractToken(req[r].auth) IN
       IF NoToken(tok)
       THEN /\ res' = [res EXCEPT ![r] = Send(@, 401, BodyMissingToken)]
            /\ req' = [req EXCEPT ![r].pc = "done"]
       ELSE IF JwtMalformed(Val(tok))
       THEN LET out == VerifyCallback([req[r] EXCEPT !.verifyCalls = @ + 1], res[r],
                                      "jwt malformed", NoBody)
            IN /\ req' = [req EXCEPT ![r] = out.q]
               /\ res' = [res EXCEPT ![r] = out.s]
       ELSE /\ req' = [req EXCEPT ![r].pc = "jwksV2", ![r].verifyCalls = @ + 1,
                                  ![r].jwks = Append(@, "v2")]
            /\ UNCHANGED res
  /\ UNCHANGED <<env, config, sessions, ctx, issued, closedIds, proc>>

\* jwt.verify resumes with the key getKey resolved
VerifyWithKey(r, key) ==
  LET out == VerifyCallback([req[r] EXCEPT !.key = Some(key), !.found = Append(@, TRUE)],
                            res[r],
                            JwtVerifyWithKey(JwtOf(req[r]), key), JwtOf(req[r]).payload)
  IN /\ req' = [req EXCEPT ![r] = out.q]
     /\ res' = [res EXCEPT ![r] = out.s]

\* mutant of UsePrimary: the answer of the v2 endpoint is never used
UsePrimary_Never(found) == FALSE

\* getKey, first callback: if (!err && key) return cb(null, key.getPublicKey())
UsePrimary(found) == found

\* getKey, first callback: the v2 endpoint answered; found = it returned the key
JwksV2Reply(r, found) ==
  /\ req[r].pc = "jwksV2"
  /\ found => CanResolve(V2Keys, JwtOf(req[r]).kid)
  /\ IF UsePrimary(found)
     THEN VerifyWithKey(r, Val(JwtOf(req[r]).kid))
     ELSE /\ req' = [req EXCEPT ![r].pc = "jwksV1", ![r].jwks = Append(@, "v1"),
                                ![r].found = Append(@, found)]
          /\ UNCHANGED res
  /\ UNCHANGED <<env, config, sessions, ctx, issued, closedIds, proc>>

\* getKey, second callback: the v1 endpoint answered
JwksV1Reply(r, found) ==
  /\ req[r].pc = "jwksV1"
  /\ found => CanResolve(V1Keys, JwtOf(req[r]).kid)
  /\ IF found
     THEN VerifyWithKey(r, Val(JwtOf(req[r]).kid))
     ELSE LET out == VerifyCallback([req[r] EXCEPT !.found = Append(@, FALSE)], res[r],
                                    "error in secret or public key callback", NoBody)
          IN /\ req' = [req EXCEPT ![r] = out.q]
             /\ res' = [res EXCEPT ![r] = out.s]
  /\ UNCHANGED <<env, config, sessions, ctx, issued, closedIds, proc>>


\* ------------------------------------------------------- session registry
\* the session ids uuidv4 can produce in one run, one per context
IdNames == <<"s1", "s2", "s3", "s4">>
SessionIds == {IdNames[i] : i \in 1..MaxCtx}

\* mutant of NewSessionIds: the generator hands out the same id every time
NewSessionIds_Repeats == {IdNames[1]}

\* sessionIdGenerator: () => uuidv4().  The ids are opaque and never repeat,
\* so the generator is taken to hand them out in the order of IdNames.
NewSessionIds ==
  IF Cardinality(issued) < MaxCtx THEN {IdNames[Cardinality(issued) + 1]} ELSE {}

\* sessions: Map<string, SessionContext>
EmptyMap == [k \in {} |-> 0]
MapGet(m, k) == IF k \in DOMAIN m THEN m[k] ELSE 0
MapSet(m, k, v) == [x \in DOMAIN m \cup {k} |-> IF x = k THEN v ELSE m[x]]
MapDelete(m, k) == [x \in DOMAIN m \ {k} |-> m[x]]
MapValues(m) == {m[k] : k \in DOMAIN m}

\* a SessionContext slot that createSession has not used yet
FreeCtx ==
  [ used |-> FALSE,
    id |-> None,             \* context.id
    ready |-> "none",        \* context.ready: pending, resolved, rejected
    open |-> FALSE,          \* the transport has not been closed
    initialized |-> FALSE,   \* transport._initialized
    closeCalls |-> 0,        \* times transport.close() was called
    engine |-> 0,            \* the McpServer object connected to the transport
    transport |-> 0,         \* context.transport, the transport object
    peer |-> "connected",    \* the client: connected, disconnected, terminated
    tsid |-> None ]          \* transport.sessionId

\* the objects on the heap: the engines and transports created so far
Allocated ==
  {ctx[c].engine : c \in {d \in Ctx : ctx[d].used}} \cup
  {ctx[c].transport : c \in {d \in Ctx : ctx[d].used}}
\* `new`: an object distinct from every object in objs
New(objs) == CHOOSE n \in 1..(Cardinality(objs) + 1) : n \notin objs

\* mutant of createMcpServer: one engine for the module, handed to every caller
createMcpServer_Shared == New({})

\* createMcpServer(): const server = new McpServer(...); ...; return server
createMcpServer == New(Allocated)

\* createSession(): the context as returned, server.connect still pending
NewContext ==
  LET server == createMcpServer IN
    [FreeCtx EXCEPT !.used = TRUE, !.ready = "pending", !.open = TRUE,
                    !.engine = server, !.transport = New(Allocated \cup {server})]

\* normalizeSessionId(headerValue); a header is undefined, a string or an array
HdrUndefined == [type |-> "undefined"]
HdrString(v) == [type |-> "string", v |-> v]
HdrArray(a) == [type |-> "array", v |-> a]
normalizeSessionId(headerValue) ==
  CASE headerValue.type = "array" ->
         IF Len(headerValue.v) > 0 THEN Some(headerValue.v[1]) ELSE None
    [] headerValue.type = "string" -> Some(headerValue.v)
    [] OTHER -> None

\* mutant of LookupSession: an unknown id falls back to a registered session
LookupSession_FallsBack(incoming) ==
  IF IsSome(incoming) /\ Val(incoming) # ""
  THEN IF Val(incoming) \in DOMAIN sessions THEN sessions[Val(incoming)]
       ELSE IF DOMAIN sessions # {} THEN sessions[CHOOSE k \in DOMAIN sessions : TRUE]
       ELSE 0
  ELSE 0

\* incomingSessionId ? sessions.get(incomingSessionId) : undefined  (0 is undefined)
Truthy(o) == IsSome(o) /\ Val(o) # ""
LookupSession(incoming) ==
  IF Truthy(incoming) THEN MapGet(sessions, Val(incoming)) ELSE 0

\* the context createSession would allocate next
FreeSlots == {c \in Ctx : ~ctx[c].used}
NextSlot == CHOOSE c \in FreeSlots : \A d \in FreeSlots : c <= d

\* mutant of ErrorHandler: the response tells what failed
ErrorHandler_TellsFailure(s) ==
  IF s.sent > 0 THEN s
  ELSE Send(s, 500, [error |-> "Internal Server Error", detail |-> "connect failed"])

\* the global error handler of server.ts, reached through next(error)
ErrorHandler(s) == IF s.sent > 0 THEN s ELSE Send(s, 500, BodyInternal)

\* handleMcpRequest up to `await session.ready`
HandleMcpRequest(r) ==
  /\ req[r].pc = "handler"
  /\ LET incoming == normalizeSessionId(req[r].sid)
         session == LookupSession(incoming)
     IN IF Truthy(incoming) /\ session = 0
        THEN /\ res' = [res EXCEPT ![r] = Send(@, 404, BodySessionNotFound)]
             /\ req' = [req EXCEPT ![r].pc = "done"]
             /\ UNCHANGED <<sessions, ctx>>
        ELSE IF session = 0
        THEN /\ FreeSlots # {}
             /\ ctx' = [ctx EXCEPT ![NextSlot] = NewContext]
             /\ req' = [req EXCEPT ![r].pc = "awaitReady", ![r].session = NextSlot]
             /\ UNCHANGED <<res, sessions>>
        ELSE /\ req' = [req EXCEPT ![r].pc = "awaitReady", ![r].session = session]
             /\ UNCHANGED <<res, sessions, ctx>>
  /\ UNCHANGED <<env, config, issued, closedIds, proc>>

\* server.connect(context.transport) settles: context.ready resolves, or the
\* catch handler of createSession runs and the promise rejects
ConnectSettle(c, ok) ==
  /\ proc.state # "exited"
  /\ ctx[c].used /\ ctx[c].ready = "pending"
  /\ IF ok
     THEN /\ ctx' = [ctx EXCEPT ![c].ready = "resolved"]
          /\ UNCHANGED sessions
     ELSE /\ ctx' = [ctx EXCEPT ![c].ready = "rejected"]
          /\ sessions' = IF IsSome(ctx[c].id) THEN MapDelete(sessions, Val(ctx[c].id))
                         ELSE sessions
  /\ UNCHANGED <<env, config, req, res, issued, closedIds, proc>>

\* `await session.ready` rejects: the route handler catches and calls next(error)
ReadyRejected(r) ==
  /\ req[r].pc = "awaitReady"
  /\ ctx[req[r].session].ready = "rejected"
  /\ req' = [req EXCEPT ![r].pc = "done", ![r].error = "ready"]
  /\ res' = [res EXCEPT ![r] = ErrorHandler(@)]
  /\ UNCHANGED <<env, config, sessions, ctx, issued, closedIds, proc>>

\* mutant of OnSessionInitialized: the registry is replaced by the new entry
OnSessionInitialized_Replaces(m, sessionId, c) ==
  IF sessionId # "" THEN [x \in {sessionId} |-> c] ELSE m

\* mutant of OnSessionInitialized: every context is registered under the
\* first id
OnSessionInitialized_UnderFirstId(m, sessionId, c) ==
  IF sessionId # "" THEN MapSet(m, IdNames[1], c) ELSE m

\* mutant of OnSessionInitialized: the first context created is registered
\* under every id
OnSessionInitialized_FirstContext(m, sessionId, c) ==
  IF sessionId # "" THEN MapSet(m, sessionId, CHOOSE d \in Ctx : ctx[d].used /\ \A e \in Ctx : ctx[e].used => d <= e)
  ELSE m

\* onsessioninitialized, after context.id = sessionId:
\* if (sessionId) sessions.set(sessionId, context)
OnSessionInitialized(m, sessionId, c) ==
  IF sessionId # "" THEN MapSet(m, sessionId, c) ELSE m

\* mutant of AwaitReady: a settled promise lets the caller continue, also
\* when it is rejected
AwaitReady_IgnoresFailure(c) == ctx[c].ready \in {"resolved", "rejected"}

\* mutant of AwaitReady: the request does not wait for the promise
AwaitReady_NoWait(c) == TRUE

\* `await session.ready` lets the caller continue: the promise has resolved
AwaitReady(c) == ctx[c].ready = "resolved"

\* `await session.ready` resolved; session.transport.handleRequest(req, res, body).
\* fails: the transport's request handling throws (caught by the route handler).
Dispatch(r, fails) ==
  /\ req[r].pc = "awaitReady"
  /\ LET c == req[r].session
         hdr == normalizeSessionId(req[r].sid)
     IN
     /\ AwaitReady(c)
     /\ IF fails
        THEN /\ req' = [req EXCEPT ![r].pc = "done", ![r].fwd = c,
                                   ![r].error = "transport"]
             /\ res' = [res EXCEPT ![r] = ErrorHandler(@)]
             /\ UNCHANGED <<sessions, ctx, issued>>
        ELSE IF req[r].body = "initialize"
        THEN IF ctx[c].initialized /\ IsSome(ctx[c].tsid)
             THEN /\ req' = [req EXCEPT ![r].pc = "done", ![r].fwd = c]
                  /\ res' = [res EXCEPT ![r] =
                               Send(@, 400, BodyTransport("Server already initialized"))]
                  /\ UNCHANGED <<sessions, ctx, issued>>
             ELSE \E id \in NewSessionIds :
                  \* sessionIdGenerator, then onsessioninitialized(sessionId)
                  /\ issued' = issued \cup {id}
                  /\ ctx' = [ctx EXCEPT ![c].initialized = TRUE, ![c].tsid = Some(id),
                                        ![c].id = Some(id)]
                  /\ sessions' = OnSessionInitialized(sessions, id, c)
                  /\ req' = [req EXCEPT ![r].pc = "forwarded", ![r].fwd = c]
                  /\ UNCHANGED res
        ELSE \* any other message: the transport validates the session header
             /\ UNCHANGED <<sessions, ctx, issued>>
             /\ IF ~ctx[c].initialized
                THEN /\ req' = [req EXCEPT ![r].pc = "done", ![r].fwd = c]
                     /\ res' = [res EXCEPT ![r] =
                                  Send(@, 400, BodyTransport("Server not initialized"))]
                ELSE IF ~IsSome(hdr)
                THEN /\ req' = [req EXCEPT ![r].pc = "done", ![r].fwd = c]
                     /\ res' = [res EXCEPT ![r] =
                                  Send(@, 400, BodyTransport("Mcp-Session-Id header is required"))]
                ELSE IF hdr # ctx[c].tsid
                THEN /\ req' = [req EXCEPT ![r].pc = "done", ![r].fwd = c]
                     /\ res' = [res EXCEPT ![r] = Send(@, 404, BodySessionNotFound)]
                ELSE /\ req' = [req EXCEPT ![r].pc = "forwarded", ![r].fwd = c]
                     /\ UNCHANGED res
  /\ UNCHANGED <<env, config, closedIds, proc>>

\* the protocol engine answers a forwarded request
EngineReply(r) ==
  /\ req[r].pc = "forwarded"
  /\ req' = [req EXCEPT ![r].pc = "done"]
  /\ res' = [res EXCEPT ![r] = Send(@, 200, BodyResult)]
  /\ UNCHANGED <<env, config, sessions, ctx, issued, closedIds, proc>>

\* mutant of OnCloseDelete: every entry is dropped
OnCloseDelete_DropsAll(m, c) == IF IsSome(ctx[c].id) THEN EmptyMap ELSE m

\* transport.close() of context c, as seen by the context: transport.onclose
\* runs `if (context.id) sessions.delete(context.id)`
OnCloseDelete(m, c) == IF IsSome(ctx[c].id) THEN MapDelete(m, Val(ctx[c].id)) ELSE m

\* onsessionclosed: if (sessionId) sessions.delete(sessionId)
OnSessionClosed(m, sessionId) == IF sessionId # "" THEN MapDelete(m, sessionId) ELSE m

RECURSIVE OnCloseAll(_, _)
OnCloseAll(m, cs) ==
  IF cs = {} THEN m
  ELSE LET c == CHOOSE x \in cs : TRUE IN OnCloseAll(OnCloseDelete(m, c), cs \ {c})

\* mutant of AfterShutdown: the registry is not cleared first, one entry is
\* overlooked
AfterShutdown_OverlooksOne(m, targets) ==
  IF DOMAIN m = {} THEN m
  ELSE LET k == CHOOSE x \in DOMAIN m : TRUE IN [x \in {k} |-> m[x]]

\* mutant of AfterShutdown: the registry is left as it was
AfterShutdown_KeepsEntries(m, targets) == m

\* mutant of ShutdownTargets: every context ever created is closed
ShutdownTargets_EveryContext == {c \in Ctx : ctx[c].used}

\* shutdownSessions(): activeSessions = Array.from(sessions.values())
ShutdownTargets == MapValues(sessions)
\* shutdownSessions(): the registry after sessions.clear() and after the
\* transport.close() of every active session has run its onclose
AfterShutdown(m, targets) == OnCloseAll(EmptyMap, targets)

\* mutant of AllSettled: Promise.all, which rejects when one promise rejects
AllSettled_RejectsOnFailure(outcomes) ==
  IF \E c \in DOMAIN outcomes : outcomes[c] = "rejected" THEN "rejected" ELSE "fulfilled"

\* await Promise.allSettled(...): fulfilled whatever the outcomes are
AllSettled(outcomes) == "fulfilled"

\* shutdown(signal, exitCode): drain the sessions, then httpServer.close.
\* failing: the sessions whose transport.close() rejects before it has closed
\* the transport and run its onclose.
Shutdown(signal, code, failing) ==
  /\ proc.state \in {"running", "closing"}
  /\ failing \subseteq ShutdownTargets
  /\ LET targets == ShutdownTargets
         closed == targets \ failing
     IN
     /\ sessions' = AfterShutdown(sessions, closed)
     /\ ctx' = [c \in Ctx |->
                 IF c \in targets
                 THEN [ctx[c] EXCEPT !.closeCalls = @ + 1, !.open = @ /\ c \in failing]
                 ELSE ctx[c]]
     \* the ids sessions.clear() took out of the registry
     /\ closedIds' = closedIds \cup {Val(ctx[c].id) : c \in {d \in targets : IsSome(ctx[d].id)}}
     \* closing a transport ends the responses it still holds
     /\ req' = [r \in Req |-> IF req[r].pc = "forwarded" /\ req[r].fwd \in closed
                              THEN [req[r] EXCEPT !.pc = "done"] ELSE req[r]]
     /\ res' = [r \in Req |-> IF req[r].pc = "forwarded" /\ req[r].fwd \in closed
                              THEN Send(res[r], 200, NoBody) ELSE res[r]]
     /\ proc' = [state |-> "closing",
                 exitCode |-> IF proc.state = "running" THEN code ELSE proc.exitCode,
                 hits |-> proc.hits,
                 fatal |-> IF signal = "uncaughtException" THEN signal ELSE proc.fatal,
                 drain |-> AllSettled([c \in targets |->
                                         IF c \in failing THEN "rejected" ELSE "fulfilled"])]
  /\ UNCHANGED <<env, config, issued>>

\* mutant of UncaughtException: the shutdown is asked to exit with status 0
UncaughtException_ExitsZero(failing) ==
  /\ proc.fatal = "none"
  /\ Shutdown("uncaughtException", 0, failing)

\* process.on("uncaughtException"): logs, then shutdown("uncaughtException", 1)
UncaughtException(failing) ==
  /\ proc.fatal = "none"
  /\ Shutdown("uncaughtException", 1, failing)

\* process.on("unhandledRejection"): console.error(...) and nothing else
OnUnhandledRejection(p) == [p EXCEPT !.fatal = "unhandledRejection"]

\* a promise is rejected outside any request and nobody handles it
UnhandledRejection ==
  /\ proc.state = "running" /\ proc.fatal = "none"
  /\ proc' = OnUnhandledRejection(proc)
  /\ UNCHANGED <<env, config, req, res, sessions, ctx, issued, closedIds>>

\* httpServer.close's callback: every connection has ended; process.exit(code)
Exit ==
  /\ proc.state = "closing"
  /\ \A r \in Req : req[r].pc \in {"idle", "done"}
  /\ proc' = [proc EXCEPT !.state = "exited"]
  /\ UNCHANGED <<env, config, req, res, sessions, ctx, issued, closedIds>>

\* the response of a finished request has been delivered; the slot is free
Finish(r) ==
  /\ proc.state # "exited"
  /\ req[r].pc = "done"
  /\ req' = [req EXCEPT ![r] = IdleReq]
  /\ res' = [res EXCEPT ![r] = IdleRes]
  /\ UNCHANGED <<env, config, sessions, ctx, issued, closedIds, proc>>

\* the client of session c drops its connection.  The transport answers in
\* JSON mode and holds no stream for the client; neither it nor the server
\* listens for the connection's end, so no callback of the session runs.
ClientDisconnect(c) ==
  /\ proc.state = "running"
  /\ ctx[c].used /\ IsSome(ctx[c].id) /\ ctx[c].peer = "connected"
  /\ ctx' = [ctx EXCEPT ![c].peer = "disconnected"]
  /\ UNCHANGED <<env, config, req, res, sessions, issued, closedIds, proc>>

\* the client of session c ends the session: DELETE /mcp with its session id.
\* The application routes GET /health and POST /mcp only, so the request
\* reaches no handler of the session and is answered 404 by the framework.
DeleteMcp(c) ==
  /\ proc.state = "running"
  /\ ctx[c].used /\ IsSome(ctx[c].id) /\ ctx[c].peer = "connected"
  /\ ctx' = [ctx EXCEPT ![c].peer = "terminated"]
  /\ UNCHANGED <<env, config, req, res, sessions, issued, closedIds, proc>>

\* a request enters POST /mcp, as long as a context is left for the session
\* it will ask for: no request waits for the bound MaxCtx
LiveArrive(r, h, sid, body) ==
  /\ Truthy(normalizeSessionId(sid)) \/ FreeSlots # {}
  /\ Arrive(r, h, sid, body)

\* ------------------------------------------------- per-request variant
\* The single-file server kept in server.ts below the current one: one
\* McpServer for the module, and a fresh transport for every request.  Its
\* gate is the code of verifyBearer; a context slot holds the transport of
\* one request, and its peer field tells whether the response has closed.

\* const server = new McpServer(...): the one engine of the module
server == New({})

\* the transports the engine has been connected to and that are not closed
AttachedOpen == {c \in Ctx : ctx[c].used /\ ctx[c].open /\ ctx[c].engine = server}

\* a slot for a new transport: never used, or closed and referred to by no
\* request
EphemeralSlots ==
  {c \in Ctx : ~ctx[c].used \/ (~ctx[c].open /\ \A r \in Req : req[r].session # c)}

\* server.connect(transport) while the engine has a transport: the SDK
\* releases that replace the engine's transport accept the call, the
\* releases that throw "Already connected to a transport" refuse it
ConnectRefused(attached) == env.SDK_REFUSES_RECONNECT /\ attached # {}

\* res.on("close", () => transport.close())
OnResClose(cx) ==
  [cx EXCEPT !.peer = "disconnected", !.open = FALSE, !.closeCalls = @ + 1]

\* the route handler of the variant: new transport, res.on("close", ...),
\* await server.connect(transport), await transport.handleRequest(...).
\* When connect is refused the handler's promise rejects; crash: the
\* rejection ends the process (no handler for it), else the framework
\* answers 500.
EphemeralHandle(r, crash) ==
  /\ proc.state = "running"
  /\ req[r].pc = "handler"
  /\ EphemeralSlots # {}
  /\ LET c == CHOOSE x \in EphemeralSlots : \A y \in EphemeralSlots : x <= y
         t == [FreeCtx EXCEPT !.used = TRUE, !.open = TRUE, !.transport = c + 1]
     IN IF ConnectRefused(AttachedOpen)
        THEN IF crash
             THEN /\ proc' = [proc EXCEPT !.state = "exited", !.exitCode = 1]
                  /\ req' = [q \in Req |-> IdleReq]
                  /\ res' = [q \in Req |-> IdleRes]
                  /\ ctx' = [ctx EXCEPT ![c] = [t EXCEPT !.ready = "rejected"]]
             ELSE /\ req' = [req EXCEPT ![r].pc = "done", ![r].session = c,
                                        ![r].error = "ready"]
                  /\ res' = [res EXCEPT ![r] = ErrorHandler(@)]
                  /\ ctx' = [ctx EXCEPT ![c] = [t EXCEPT !.ready = "rejected"]]
                  /\ UNCHANGED proc
        ELSE /\ ctx' = [ctx EXCEPT ![c] = [t EXCEPT !.ready = "resolved", !.engine = server,
                                                   !.initialized = TRUE]]
             /\ req' = [req EXCEPT ![r].pc = "forwarded", ![r].session = c, ![r].fwd = c]
             /\ UNCHANGED <<res, proc>>
  /\ UNCHANGED <<env, config, sessions, issued, closedIds>>

\* the response that transport c serves closes: it was completed, or the
\* client went away; the listener closes the transport
ResClose(c) ==
  /\ proc.state = "running"
  /\ ctx[c].used /\ ctx[c].peer = "connected"
  /\ \A r \in Req : req[r].session = c => req[r].pc \in {"forwarded", "done"}
  /\ ctx' = [ctx EXCEPT ![c] = OnResClose(@)]
  /\ req' = [r \in Req |-> IF req[r].session = c /\ req[r].pc = "forwarded"
                           THEN [req[r] EXCEPT !.pc = "done"] ELSE req[r]]
  /\ UNCHANGED <<env, config, res, sessions, issued, closedIds, proc>>

\* -------------------------------------------------------------- startup
\* the environment as the process finds it: every setting is a string or unset
DigitChars == <<"0","1","2","3","4","5","6","7","8","9">>
IsDigit(c) == \E i \in 1..10 : DigitChars[i] = c
DigitValue(c) == (CHOOSE i \in 1..10 : DigitChars[i] = c) - 1
HexChars == Range(DigitChars) \cup {"a","b","c","d","e","f","A","B","C","D","E","F"}
Letters == Range(UpperChars) \cup Range(LowerChars)

\* the value of a sequence of decimal digits
RECURSIVE DigitsValue(_)
DigitsValue(ds) ==
  IF ds = <<>> THEN 0
  ELSE 10 * DigitsValue(SubSeq(ds, 1, Len(ds) - 1)) + DigitValue(ds[Len(ds)])

\* the longest prefix of s made of digits
RECURSIVE DigitPrefix(_)
DigitPrefix(s) ==
  IF s = <<>> \/ ~IsDigit(s[1]) THEN <<>> ELSE <<s[1]>> \o DigitPrefix(Tail(s))

\* s without its leading white space
RECURSIVE TrimStart(_)
TrimStart(s) == IF s # <<>> /\ s[1] \in WhiteSpace THEN TrimStart(Tail(s)) ELSE s
RECURSIVE TrimEnd(_)
TrimEnd(s) ==
  IF s # <<>> /\ s[Len(s)] \in WhiteSpace THEN TrimEnd(SubSeq(s, 1, Len(s) - 1)) ELSE s

NaN == [nan |-> TRUE, v |-> 0, integral |-> FALSE]
Num(v, integral) == [nan |-> FALSE, v |-> v, integral |-> integral]

\* Number.parseInt(s, 10): leading white space, a sign, then as many digits
\* as there are; what follows the digits is ignored
parseInt(s) ==
  LET t == TrimStart(s)
      neg == t # <<>> /\ t[1] = "-"
      u == IF t # <<>> /\ t[1] \in {"-", "+"} THEN Tail(t) ELSE t
      ds == DigitPrefix(u)
  IN IF ds = <<>> THEN NaN
     ELSE Num(IF neg THEN 0 - DigitsValue(ds) ELSE DigitsValue(ds), TRUE)

\* Number(s) as z.coerce.number() applies it, for decimal literals: the
\* trimmed string is empty (0), or a sign, digits and an optional fraction
ToNumber(s) ==
  LET t == TrimEnd(TrimStart(s))
      neg == t # <<>> /\ t[1] = "-"
      u == IF t # <<>> /\ t[1] \in {"-", "+"} THEN Tail(t) ELSE t
      ds == DigitPrefix(u)
      rest == SubSeq(u, Len(ds) + 1, Len(u))
      frac == IF rest # <<>> /\ rest[1] = "." THEN Tail(rest) ELSE <<>>
      v == IF neg THEN 0 - DigitsValue(ds) ELSE DigitsValue(ds)
  IN IF t = <<>> THEN Num(0, TRUE)
     ELSE IF ds = <<>> THEN NaN
     ELSE IF rest = <<>> \/ rest = <<".">> THEN Num(v, TRUE)
     ELSE IF rest[1] = "." /\ DigitPrefix(frac) = frac
          THEN Num(v, DigitsValue(frac) = 0)
     ELSE NaN

\* z.coerce.number().int().positive().optional()
PositiveIntOk(o) ==
  ~IsSome(o) \/ LET n == ToNumber(Val(o)) IN ~n.nan /\ n.integral /\ n.v > 0

\* z.string().uuid(): 8-4-4-4-12 hexadecimal digits
IsUuid(s) ==
  /\ Len(s) = 36
  /\ \A i \in 1..36 : IF i \in {9, 14, 19, 24} THEN s[i] = "-" ELSE s[i] \in HexChars
\* z.string().url(): new URL(s) succeeds; a scheme of letters, a colon and
\* something after it
IsUrl(s) ==
  \E i \in 2..Len(s) :
    /\ s[i] = ":" /\ i < Len(s)
    /\ \A j \in 1..(i - 1) : s[j] \in Letters
ApiPrefix == <<"a","p","i",":","/","/">>

\* EnvSchema.parse(process.env) does not throw
EnvSchemaOk(e) ==
  /\ IsSome(e.TENANT_ID) /\ Len(Val(e.TENANT_ID)) >= 1
  /\ IsSome(e.AUDIENCE)
  /\ \/ IsUuid(Val(e.AUDIENCE))
     \/ StartsWith(Val(e.AUDIENCE), ApiPrefix)
     \/ IsUrl(Val(e.AUDIENCE))
  /\ PositiveIntOk(e.RATE_LIMIT_WINDOW_MS)
  /\ PositiveIntOk(e.RATE_LIMIT_MAX)

\* const port = Number.parseInt(env.PORT ?? "3000", 10)
defaultPort == <<"3","0","0","0">>
port(e) == parseInt(IF IsSome(e.PORT) THEN Val(e.PORT) ELSE defaultPort)

\* app.listen(port) accepts the port: an integer from 0 to 65535
MaxPort == 65535
ListenOk(p) == ~p.nan /\ p.v >= 0 /\ p.v <= MaxPort

\* the modules are evaluated: config.ts parses the environment and throws on
\* a schema error; server.ts calls app.listen, which throws on a bad port.
\* Either error ends the process; otherwise the server is listening.
Start ==
  /\ proc.state = "starting"
  /\ IF EnvSchemaOk(env) /\ ListenOk(port(env))
     THEN /\ proc' = [proc EXCEPT !.state = "running"]
          /\ config' = [loaded |-> TRUE, port |-> port(env).v]
     ELSE /\ proc' = [proc EXCEPT !.state = "exited", !.exitCode = 1]
          /\ UNCHANGED config
  /\ UNCHANGED <<env, req, res, sessions, ctx, issued, closedIds>>

\* ------------------------------------------------------------ specifications
\* AUDIENCE_ALT is a setting a deployment may carry for a second audience
DefaultEnv ==
  [ ALLOWED_SCOPES |-> None, ALLOWED_ROLES |-> None, RATE_LIMIT_MAX |-> None,
    AUDIENCE_ALT |-> None ]

InitWith(e) ==
  /\ env = e
  /\ config = MakeConfig(e)
  /\ req = [r \in Req |-> IdleReq]
  /\ res = [r \in Req |-> IdleRes]
  /\ sessions = EmptyMap
  /\ ctx = [c \in Ctx |-> FreeCtx]
  /\ issued = {}
  /\ closedIds = {}
  /\ proc = [state |-> "running", exitCode |-> 0, drain |-> "none", hits |-> 0,
             fatal |-> "none"]

\* inputs of the registry specification: authorized callers racing on sessions
CoreHeaders == {Some(Bearer("tRole"))}
CoreSids == {HdrUndefined} \cup {HdrString(id) : id \in SessionIds}

\* inputs of the gate specification: one request at a time, every kind of
\* Authorization header and of session header
GateHeaders == NoTokenHeaders \cup {Some(Bearer(t)) : t \in TokenNames \cup {"garbage"}}
GateSids == CoreSids \cup {HdrString(""), HdrString("abc-123")}

\* inputs of the policy specification: every policy setting, tokens that verify
sCustom == <<"x",".","Y",","," ","Z",".","w">>
Settings == {None, Some(<<>>), Some(sCustom), Some(<<",">>)}
PolicyEnvs ==
  [ ALLOWED_SCOPES : Settings, ALLOWED_ROLES : Settings, RATE_LIMIT_MAX : {None},
    AUDIENCE_ALT : {None} ]
PolicyTokens == { "tRole", "tRoleUpper", "tScope", "tScopeOnly", "tNeither", "tEmpty",
                  "tCommaScope", "tCustomRole", "tCustomScope" }
PolicyHeaders == {Some(Bearer(t)) : t \in PolicyTokens}

Bodies == {"initialize", "call"}

NextWith(R, Headers, Sids, Codes) ==
  \/ \E r \in R, h \in Headers, sid \in Sids, b \in Bodies : Arrive(r, h, sid, b)
  \/ \E r \in R : VerifyBearer(r)
  \/ \E r \in R, found \in BOOLEAN : JwksV2Reply(r, found)
  \/ \E r \in R, found \in BOOLEAN : JwksV1Reply(r, found)
  \/ \E r \in R : HandleMcpRequest(r)
  \/ \E c \in Ctx, ok \in BOOLEAN : ConnectSettle(c, ok)
  \/ \E r \in R : ReadyRejected(r)
  \/ \E r \in R, fails \in BOOLEAN : Dispatch(r, fails)
  \/ \E r \in R : EngineReply(r)
  \/ \E code \in Codes, failing \in SUBSET ShutdownTargets :
       Shutdown("SIGTERM", code, failing)
  \/ Exit
  \/ \E r \in R : Finish(r)

Init == InitWith(DefaultEnv)
Next == NextWith(Req, CoreHeaders, CoreSids, {0})
Spec == Init /\ [][Next]_vars

NextGate == NextWith({1}, GateHeaders, GateSids, {0})
SpecGate == Init /\ [][NextGate]_vars

\* one request at a time, clients that leave, and the event loop running
\* every callback that is due; signals and clients are under no obligation
NextLive ==
  \/ \E h \in CoreHeaders, sid \in CoreSids, b \in Bodies : LiveArrive(1, h, sid, b)
  \/ VerifyBearer(1)
  \/ \E found \in BOOLEAN : JwksV2Reply(1, found)
  \/ \E found \in BOOLEAN : JwksV1Reply(1, found)
  \/ HandleMcpRequest(1)
  \/ \E c \in Ctx, ok \in BOOLEAN : ConnectSettle(c, ok)
  \/ ReadyRejected(1)
  \/ \E fails \in BOOLEAN : Dispatch(1, fails)
  \/ EngineReply(1)
  \/ \E failing \in SUBSET ShutdownTargets : Shutdown("SIGTERM", 0, failing)
  \/ Exit
  \/ Finish(1)
  \/ \E c \in Ctx : ClientDisconnect(c)
  \/ \E c \in Ctx : DeleteMcp(c)
EventLoop ==
  /\ WF_vars(\E r \in Req : VerifyBearer(r))
  /\ WF_vars(\E r \in Req, found \in BOOLEAN : JwksV2Reply(r, found))
  /\ WF_vars(\E r \in Req, found \in BOOLEAN : JwksV1Reply(r, found))
  /\ WF_vars(\E r \in Req : HandleMcpRequest(r))
  /\ WF_vars(\E c \in Ctx, ok \in BOOLEAN : ConnectSettle(c, ok))
  /\ WF_vars(\E r \in Req : ReadyRejected(r))
  /\ WF_vars(\E r \in Req, fails \in BOOLEAN : Dispatch(r, fails))
  /\ WF_vars(\E r \in Req : EngineReply(r))
  /\ WF_vars(\E r \in Req : Finish(r))
  /\ WF_vars(Exit)
SpecLive == Init /\ [][NextLive]_vars /\ EventLoop

\* one request at a time and the two process-fatal events
NextFatal ==
  \/ \E h \in CoreHeaders, sid \in CoreSids, b \in Bodies : LiveArrive(1, h, sid, b)
  \/ VerifyBearer(1)
  \/ \E found \in BOOLEAN : JwksV2Reply(1, found)
  \/ \E found \in BOOLEAN : JwksV1Reply(1, found)
  \/ HandleMcpRequest(1)
  \/ \E c \in Ctx, ok \in BOOLEAN : ConnectSettle(c, ok)
  \/ ReadyRejected(1)
  \/ \E fails \in BOOLEAN : Dispatch(1, fails)
  \/ EngineReply(1)
  \/ \E failing \in SUBSET ShutdownTargets : UncaughtException(failing)
  \/ UnhandledRejection
  \/ Exit
  \/ Finish(1)
SpecFatal == Init /\ [][NextFatal]_vars /\ EventLoop

\* one request at a time and every event that starts a shutdown
NextSignal ==
  \/ \E h \in CoreHeaders, sid \in CoreSids, b \in Bodies : LiveArrive(1, h, sid, b)
  \/ VerifyBearer(1)
  \/ \E found \in BOOLEAN : JwksV2Reply(1, found)
  \/ \E found \in BOOLEAN : JwksV1Reply(1, found)
  \/ HandleMcpRequest(1)
  \/ \E c \in Ctx, ok \in BOOLEAN : ConnectSettle(c, ok)
  \/ ReadyRejected(1)
  \/ \E fails \in BOOLEAN : Dispatch(1, fails)
  \/ EngineReply(1)
  \/ \E failing \in SUBSET ShutdownTargets : Shutdown("SIGTERM", 0, failing)
  \/ \E failing \in SUBSET ShutdownTargets : Shutdown("SIGINT", 0, failing)
  \/ \E failing \in SUBSET ShutdownTargets : UncaughtException(failing)
  \/ Exit
  \/ Finish(1)
SpecSignal == Init /\ [][NextSignal]_vars

\* one client whose requests the limiter counts: GET /health and POST /mcp,
\* under the default limit and under small limits
HealthEnvs ==
  {[DefaultEnv EXCEPT !.RATE_LIMIT_MAX = v] : v \in {None, Some(1), Some(2)}}
HealthHeaders == {None, Some(Bearer("tRole")), Some(Bearer("garbage"))}
InitHealth == \E e \in HealthEnvs : InitWith(e)
NextHealth ==
  \/ \E h \in HealthHeaders : Health(1, h)
  \/ \E h \in HealthHeaders, sid \in CoreSids, b \in Bodies : LimitedArrive(1, h, sid, b)
  \/ WindowReset
  \/ VerifyBearer(1)
  \/ \E found \in BOOLEAN : JwksV2Reply(1, found)
  \/ \E found \in BOOLEAN : JwksV1Reply(1, found)
  \/ HandleMcpRequest(1)
  \/ \E c \in Ctx, ok \in BOOLEAN : ConnectSettle(c, ok)
  \/ ReadyRejected(1)
  \/ \E fails \in BOOLEAN : Dispatch(1, fails)
  \/ EngineReply(1)
  \/ \E failing \in SUBSET ShutdownTargets : Shutdown("SIGTERM", 0, failing)
  \/ Exit
  \/ Finish(1)
SpecHealth == InitHealth /\ [][NextHealth]_vars

\* one request at a time, with and without a second audience in the
\* environment, and tokens for the configured and for the other audience
AudienceEnvs == {[DefaultEnv EXCEPT !.AUDIENCE_ALT = v] : v \in {None, Some(OtherAudience)}}
AudienceHeaders ==
  {Some(Bearer(t)) : t \in {"tRole", "tV1Key", "tWrongAud", "tWrongAudNoRole",
                            "tWrongIss", "tExpired", "tBadSig"}}
InitAudience == \E e \in AudienceEnvs : InitWith(e)
NextAudience == NextWith({1}, AudienceHeaders, CoreSids, {0})
SpecAudience == InitAudience /\ [][NextAudience]_vars

\* two requests in flight whose tokens fail verification for different
\* reasons, next to one that verifies
RejectHeaders ==
  {Some(Bearer(t)) : t \in {"tRole", "tNeither", "tExpired", "tBadSig", "tWrongIss",
                            "tWrongAud", "garbage"}}
NextReject == NextWith(Req, RejectHeaders, {HdrUndefined}, {0})
SpecReject == Init /\ [][NextReject]_vars

\* the per-request variant: two requests in flight, under an SDK release
\* that accepts a second connect and under one that refuses it
EphemeralEnvs ==
  [ ALLOWED_SCOPES : {None}, ALLOWED_ROLES : {None}, RATE_LIMIT_MAX : {None},
    AUDIENCE_ALT : {None}, SDK_REFUSES_RECONNECT : BOOLEAN ]
InitEphemeral == \E e \in EphemeralEnvs : InitWith(e)
NextEphemeral ==
  \/ \E r \in Req, h \in CoreHeaders, b \in Bodies : Arrive(r, h, HdrUndefined, b)
  \/ \E r \in Req : VerifyBearer(r)
  \/ \E r \in Req, found \in BOOLEAN : JwksV2Reply(r, found)
  \/ \E r \in Req, found \in BOOLEAN : JwksV1Reply(r, found)
  \/ \E r \in Req, crash \in BOOLEAN : EphemeralHandle(r, crash)
  \/ \E r \in Req : EngineReply(r)
  \/ \E c \in Ctx : ResClose(c)
  \/ \E r \in Req : Finish(r)
SpecEphemeral == InitEphemeral /\ [][NextEphemeral]_vars

\* the settings a deployment may start the process with
TenantValues == {None, Some(<<>>), Some(<<"t","1">>)}
AudienceValues ==
  { None, Some(<<>>), Some(<<"m","c","p">>),
    Some(<<"a","p","i",":","/","/","m","c","p">>),
    Some(<<"h","t","t","p","s",":","/","/","m","c","p",".","e","x","a","m","p","l","e">>),
    Some(<<"0","1","2","3","4","5","6","7","-","8","9","a","b","-","c","d","e","f","-","0","1","2","3","-","4","5","6","7","8","9","a","b","c","d","e","f">>) }
PortValues ==
  { None, Some(<<"3","0","0","0">>), Some(<<"8","0","8","0">>), Some(<<"3","0","0","0","a","b","c">>), Some(<<"a","b","c">>),
    Some(<<"7","0","0","0","0">>), Some(<<"-","1">>), Some(<<"8","0",".","5">>), Some(<<>>) }
RateValues == {None, Some(<<"1","0","0">>), Some(<<"0">>), Some(<<"a","b","c">>), Some(<<"1",".","5">>), Some(<<"-","3">>)}
StartupEnvs ==
  [ TENANT_ID : TenantValues, AUDIENCE : AudienceValues, PORT : PortValues,
    RATE_LIMIT_WINDOW_MS : RateValues, RATE_LIMIT_MAX : RateValues ]
InitStartup ==
  /\ env \in StartupEnvs
  /\ config = [loaded |-> FALSE, port |-> 0]
  /\ req = [r \in Req |-> IdleReq]
  /\ res = [r \in Req |-> IdleRes]
  /\ sessions = EmptyMap
  /\ ctx = [c \in Ctx |-> FreeCtx]
  /\ issued = {}
  /\ closedIds = {}
  /\ proc = [state |-> "starting", exitCode |-> 0, drain |-> "none", hits |-> 0,
             fatal |-> "none"]
NextStartup == Start
SpecStartup == InitStartup /\ [][NextStartup]_vars

InitPolicy == \E e \in PolicyEnvs : InitWith(e)
NextPolicy == NextWith({1}, PolicyHeaders, {HdrUndefined}, {0})
SpecPolicy == InitPolicy /\ [][NextPolicy]_vars


\* ===================================================================== claims
\* Vocabulary of the claims, stated on the request as the client sent it.

\* the header is "Bearer " followed by at least one character
CarriesBearerToken(h) ==
  /\ IsSome(h)
  /\ Len(Val(h)) > Len(BearerPrefix)
  /\ \A i \in 1..Len(BearerPrefix) : Val(h)[i] = BearerPrefix[i]

\* the gate has finished with request r
PastGate(r) == req[r].pc \notin {"idle", "gate", "jwksV2", "jwksV1"}

\* request r reached handleMcpRequest (or is about to: next() was called)
ReachedHandler(r) ==
  \/ req[r].pc \in {"handler", "awaitReady", "forwarded"}
  \/ req[r].session # 0
  \/ req[r].fwd # 0
  \/ res[r].status \in {200, 400, 404, 500}

\* the text after "Bearer " is a JWT
PresentsJwt(r) ==
  /\ CarriesBearerToken(req[r].auth)
  /\ Len(Val(req[r].auth)) = Len(BearerPrefix) + 1
  /\ Val(req[r].auth)[Len(BearerPrefix) + 1] \in TokenNames
PresentedJwt(r) == DecodeToken(Val(req[r].auth)[Len(BearerPrefix) + 1])

\* every verification step succeeded for the token of request r: a published
\* key with the token's key id was resolved, RS256, signature, expiry,
\* audience, issuer
TokenVerified(r) ==
  /\ PresentsJwt(r)
  /\ IsSome(req[r].key)
  /\ Val(req[r].key) \in V2Keys \cup V1Keys
  /\ LET j == PresentedJwt(r) IN
       /\ j.kid = req[r].key
       /\ j.alg = "RS256"
       /\ j.signedBy = Val(req[r].key)
       /\ ~j.payload.expired
       /\ j.payload.aud = Audience
       /\ j.payload.iss = IssuerV2

\* two strings are equal up to letter case
SameLetter(a, b) ==
  \/ a = b
  \/ \E i \in 1..Len(UpperChars) : {a, b} = {UpperChars[i], LowerChars[i]}
SameIgnoringCase(x, y) ==
  Len(x) = Len(y) /\ \A i \in 1..Len(x) : SameLetter(x[i], y[i])

\* the maximal non-empty runs of s that contain no character of sep
Words(s, sep) ==
  { SubSeq(s, p[1], p[2]) :
      p \in { q \in (1..Len(s)) \X (1..Len(s)) :
                /\ q[1] <= q[2]
                /\ \A k \in q[1]..q[2] : s[k] \notin sep
                /\ (q[1] = 1 \/ s[q[1] - 1] \in sep)
                /\ (q[2] = Len(s) \/ s[q[2] + 1] \in sep) } }

\* the claims of a token satisfy the policy: a role, or a whitespace-separated
\* scope, equals an allowed value up to letter case
RolesOf(payload) == IF IsSome(payload.roles) THEN Range(Val(payload.roles)) ELSE {}
ScopesOf(payload) == IF IsSome(payload.scp) THEN Words(Val(payload.scp), WhiteSpace) ELSE {}
MatchesAny(values, allowed) ==
  \E v \in values, a \in allowed : SameIgnoringCase(v, a)
PolicyAllows(payload) ==
  \/ MatchesAny(RolesOf(payload), config.allowedRoles)
  \/ MatchesAny(ScopesOf(payload), config.allowedScopes)

\* ---------------------------------------------------------------------- C1
\* C1: a request whose Authorization header is absent, does not start with
\* "Bearer ", or carries an empty token is answered 401 {"error": "Missing
\* bearer token"}; no key-set endpoint is asked, jwt.verify is not invoked
\* and the request never reaches the handler.
C1_MissingTokenFailsFast ==
  \A r \in Req :
    (req[r].pc \notin {"idle", "gate"} /\ ~CarriesBearerToken(req[r].auth)) =>
      /\ req[r].pc = "done"
      /\ res[r] = [status |-> 401, body |-> [error |-> "Missing bearer token"], sent |-> 1]
      /\ req[r].jwks = <<>>
      /\ req[r].verifyCalls = 0
      /\ req[r].nextCalls = 0
      /\ ~ReachedHandler(r)

\* an empty token ("Bearer " and nothing else) was answered
C1_Witness ==
  \E r \in Req : /\ req[r].auth = Some(<<"B","e","a","r","e","r"," ">>)
                 /\ req[r].pc = "done" /\ res[r].status = 401

\* ---------------------------------------------------------------------- C2
\* C2: a request reaches handleMcpRequest only if its token was verified and
\* the policy allowed its claims, and the verified claims are attached to the
\* request (req.user) before the handler runs.
C2_HandlerOnlyAfterGate ==
  \A r \in Req :
    ReachedHandler(r) =>
      /\ TokenVerified(r)
      /\ PolicyAllows(PresentedJwt(r).payload)
      /\ req[r].user = Some(PresentedJwt(r).payload)

\* a verified, authorized request has been forwarded to a session
C2_Witness ==
  \E r \in Req : req[r].pc = "forwarded" /\ IsSome(req[r].user)

ConfiguredValues(raw, fallback) ==
  IF IsSome(raw) /\ Val(raw) # <<>> THEN Words(Val(raw), CommaOrSpace) ELSE Range(fallback)
ConfiguredRoles == ConfiguredValues(env.ALLOWED_ROLES, defaultRoles)
ConfiguredScopes == ConfiguredValues(env.ALLOWED_SCOPES, defaultScopes)

SameSetIgnoringCase(A, B) ==
  /\ \A a \in A : \E b \in B : SameIgnoringCase(a, b)
  /\ \A b \in B : \E a \in A : SameIgnoringCase(a, b)

\* ---------------------------------------------------------------------- C5
\* C5: for all verified claims the policy allows the request if and only if
\* at least one role is in the allowed-roles set or at least one
\* whitespace-separated scope is in the allowed-scopes set (logical OR, each
\* axis on its own, matching up to letter case).
C5_PolicyIsRoleOrScope ==
  \A r \in Req :
    (PastGate(r) /\ TokenVerified(r)) =>
      /\ req[r].policyCalls = 1
      /\ (req[r].nextCalls = 1) <=> PolicyAllows(PresentedJwt(r).payload)
      /\ (req[r].nextCalls = 0) <=> (res[r].status = 403)

\* a token with an allowed scope and only unrelated roles passed the policy
C5_Witness ==
  \E r \in Req : /\ req[r].auth = Some(Bearer("tScopeOnly"))
                 /\ env = DefaultEnv
                 /\ req[r].nextCalls = 1 /\ req[r].pc = "handler"

\* ---------------------------------------------------------------------- C6
\* C6: role and scope matching is case-insensitive on both sides: a verified
\* token with a role or scope equal, up to letter case, to a configured
\* allowed value passes the policy.
C6_CaseInsensitiveOnBothSides ==
  \A r \in Req :
    ( /\ PastGate(r) /\ TokenVerified(r)
      /\ \/ MatchesAny(RolesOf(PresentedJwt(r).payload), ConfiguredRoles)
         \/ MatchesAny(ScopesOf(PresentedJwt(r).payload), ConfiguredScopes) ) =>
      (req[r].nextCalls = 1 /\ res[r].status # 403)

\* scp "Mcp.Access" passed against the configured "mcp.access"
C6_Witness ==
  \E r \in Req : /\ req[r].auth = Some(Bearer("tScope"))
                 /\ <<"m","c","p",".","a","c","c","e","s","s">> \in config.allowedScopes
                 /\ req[r].nextCalls = 1 /\ req[r].pc = "handler"

\* ---------------------------------------------------------------------- C7
\* C7: for a verified token whose roles and scopes contain none of the
\* allowed values, the 403 body has error "Insufficient permissions",
\* detail.roles and detail.scopes are the token's roles and scopes, and
\* detail.expected.anyRoleIn / anyScopeIn equal the configured allowed sets
\* (as sets, up to letter case).
C7_ForbiddenBodyReportsPolicy ==
  \A r \in Req :
    (PastGate(r) /\ TokenVerified(r) /\ ~PolicyAllows(PresentedJwt(r).payload)) =>
      /\ res[r].status = 403
      /\ res[r].body.error = "Insufficient permissions"
      /\ res[r].body.detail.roles =
           (IF IsSome(PresentedJwt(r).payload.roles)
            THEN Val(PresentedJwt(r).payload.roles) ELSE <<>>)
      /\ Range(res[r].body.detail.scopes) = ScopesOf(PresentedJwt(r).payload)
      /\ SameSetIgnoringCase(res[r].body.detail.expected.anyRoleIn, ConfiguredRoles)
      /\ SameSetIgnoringCase(res[r].body.detail.expected.anyScopeIn, ConfiguredScopes)

\* a token with unrelated roles and scopes was answered 403 under a
\* configured (non-default) role list
C7_Witness ==
  \E r \in Req : /\ req[r].auth = Some(Bearer("tNeither"))
                 /\ env.ALLOWED_ROLES = Some(sCustom)
                 /\ res[r].status = 403 /\ req[r].pc = "done"


\* handleMcpRequest runs its lookup for request r in this step
HandlerStep(r) == req[r].pc = "handler" /\ req'[r].pc # "handler"
\* the request of slot r leaves `await session.ready` in this step
DispatchStep(r) == req[r].pc = "awaitReady" /\ req'[r].pc # "awaitReady"

SessionNotFoundResponse ==
  [ status |-> 404,
    body |-> [ jsonrpc |-> "2.0",
               error |-> [code |-> -32001, message |-> "Session not found"],
               id |-> "null" ],
    sent |-> 1 ]

\* ---------------------------------------------------------------------- C8
\* C8 as stated: an authenticated request whose session-id header is present
\* and not a key of the registry is answered 404 with the JSON-RPC error
\* {code: -32001, message: "Session not found", id: null}; no session is
\* created, nothing is forwarded and the registry is unchanged.
C8_PresentUnknownSessionIs404 ==
  [][ \A r \in Req :
        ( /\ HandlerStep(r)
          /\ req[r].sid.type = "string"
          /\ req[r].sid.v \notin DOMAIN sessions ) =>
          /\ res'[r] = SessionNotFoundResponse
          /\ req'[r].pc = "done" /\ req'[r].session = 0 /\ req'[r].fwd = 0
          /\ sessions' = sessions /\ ctx' = ctx /\ issued' = issued ]_vars

\* C8 as amended: the same for a session-id header that is present with a
\* non-empty value and not a key of the registry (an empty header value is
\* treated like an absent header).
C8_NonEmptyUnknownSessionIs404 ==
  [][ \A r \in Req :
        ( /\ HandlerStep(r)
          /\ req[r].sid.type = "string"
          /\ req[r].sid.v # ""
          /\ req[r].sid.v \notin DOMAIN sessions ) =>
          /\ res'[r] = SessionNotFoundResponse
          /\ req'[r].pc = "done" /\ req'[r].session = 0 /\ req'[r].fwd = 0
          /\ sessions' = sessions /\ ctx' = ctx /\ issued' = issued ]_vars

\* the id "abc-123", never issued by the server, was answered 404
C8_Witness ==
  \E r \in Req : /\ req[r].sid = HdrString("abc-123")
                 /\ IsSome(req[r].user)
                 /\ res[r] = SessionNotFoundResponse

\* ---------------------------------------------------------------------- C9
\* context c reached Ready, is registered under s and has not been closed
ReadyUnder(c, s) ==
  /\ ctx[c].used /\ ctx[c].id = Some(s) /\ ctx[c].open
  /\ s \notin closedIds

\* C9: once a session is Ready and registered under s, every request that
\* presents s while the session has not closed resolves to that same context
\* and is dispatched to that context's transport, never to another one.
C9_RoundTripSameInstance ==
  [][ \A r \in Req, c \in Ctx, s \in SessionIds :
        (ReadyUnder(c, s) /\ req[r].sid = HdrString(s)) =>
          /\ HandlerStep(r) => (req'[r].pc = "awaitReady" /\ req'[r].session = c)
          /\ DispatchStep(r) => (req[r].session = c /\ req'[r].fwd = c) ]_vars

\* a request presenting the id of the second session was forwarded to it
C9_Witness ==
  \E r \in Req, s \in SessionIds :
    /\ req[r].sid = HdrString(s)
    /\ req[r].pc = "forwarded" /\ req[r].fwd = 2
    /\ ReadyUnder(2, s) /\ ctx[1].used

\* --------------------------------------------------------------------- C10
\* C10: once the session registered under s has been closed, s is never a
\* key of the registry again and every later request presenting s is
\* answered 404 with the "Session not found" error (code -32001).
C10_ClosedIdNeverResolves ==
  /\ [](\A s \in closedIds : s \notin DOMAIN sessions)
  /\ [][ \A r \in Req :
           ( /\ HandlerStep(r)
             /\ req[r].sid.type = "string"
             /\ req[r].sid.v \in closedIds ) =>
             /\ res'[r] = SessionNotFoundResponse
             /\ req'[r].pc = "done" /\ req'[r].session = 0 ]_vars

\* a request presenting the id of a closed session was answered 404
C10_Witness ==
  \E r \in Req : /\ req[r].sid.type = "string"
                 /\ req[r].sid.v \in closedIds
                 /\ res[r] = SessionNotFoundResponse

\* --------------------------------------------------------------------- C11
\* context c reached Ready: its handshake completed and it got its id
ReachedReady(c) == ctx[c].used /\ IsSome(ctx[c].id)
\* transport.close() of context c is called in this step
ClosedInStep(c) == ctx'[c].closeCalls > ctx[c].closeCalls
\* registry m without the entry under key k, every other entry as it was
Without(m, k) == [x \in DOMAIN m \ {k} |-> m[x]]

\* C11: for a session that reached Ready, a close signal (onsessionclosed or
\* the transport's onclose) removes exactly the entry under that session's id
\* and no other entry, and a further close signal for the same session leaves
\* the registry as it is; a step that closes transports removes the entries
\* of the sessions it closes and of no other session.
C11_CloseIdempotent ==
  /\ [](\A c \in Ctx : ReachedReady(c) =>
          LET s == Val(ctx[c].id)
              once == OnCloseDelete(sessions, c)
              onceById == OnSessionClosed(sessions, s)
          IN /\ once = Without(sessions, s)
             /\ onceById = Without(sessions, s)
             /\ OnCloseDelete(once, c) = once
             /\ OnSessionClosed(once, s) = once
             /\ OnSessionClosed(onceById, s) = onceById
             /\ OnCloseDelete(onceById, c) = onceById)
  /\ [][ (\E c \in Ctx : ClosedInStep(c)) =>
          /\ \A c \in Ctx : (ClosedInStep(c) /\ ReachedReady(c)) =>
                              Val(ctx[c].id) \notin DOMAIN sessions'
          /\ \A k \in DOMAIN sessions :
                k \in DOMAIN sessions' \/ ClosedInStep(sessions[k]) ]_vars

\* a session that reached Ready has been closed and its entry is gone, while
\* another session is registered and open
C11_Witness ==
  \E c \in Ctx, d \in Ctx :
    /\ ReachedReady(c) /\ ~ctx[c].open /\ Val(ctx[c].id) \notin DOMAIN sessions
    /\ ReachedReady(d) /\ ctx[d].open /\ MapGet(sessions, Val(ctx[d].id)) = d

\* --------------------------------------------------------------------- C12
\* the values only a client can have put into the session-id header
ClientOnlyValues == {"", "abc-123"}

\* C12: the registry holds at most one session per identifier (no two
\* sessions carry the same id), every key of the registry was produced by the
\* server's session-id generator, and a key is only ever added in the step
\* that generates it, for a request that supplied no session id of its own.
C12_KeysAreServerGenerated ==
  /\ [](/\ DOMAIN sessions \subseteq issued
        /\ DOMAIN sessions \cap ClientOnlyValues = {}
        /\ \A c \in Ctx, d \in Ctx :
              (c # d /\ ReachedReady(c) /\ ReachedReady(d)) => ctx[c].id # ctx[d].id)
  /\ [][ \A k \in DOMAIN sessions' \ DOMAIN sessions :
          /\ k \in issued' \ issued
          /\ \E r \in Req : /\ DispatchStep(r)
                             /\ ~Truthy(normalizeSessionId(req[r].sid))
                             /\ sessions'[k] = req[r].session ]_vars

\* a request that sent an empty session-id header got a session of its own
\* under a generated id, next to an earlier session
C12_Witness ==
  /\ req[1].sid = HdrString("") /\ req[1].pc = "forwarded"
  /\ Cardinality(DOMAIN sessions) = 2
  /\ MapGet(sessions, "s2") = req[1].fwd

\* --------------------------------------------------------------------- C13
\* context c is a value of registry m
RegisteredIn(m, c) == \E k \in DOMAIN m : m[k] = c
\* the lifecycle state of the session held in context slot c
Phase(cx, m, c) ==
  IF ~cx[c].used THEN "Absent"
  ELSE IF ~cx[c].open THEN "Closed"
  ELSE IF RegisteredIn(m, c) THEN "Ready"
  ELSE IF IsSome(cx[c].id) THEN "Closed"
  ELSE "Created"
LifecycleMoves ==
  { <<"Absent", "Created">>, <<"Created", "Ready">>, <<"Ready", "Closed">> }

\* C13: each session moves only along Created -> Ready -> Closed; it is
\* registered only in the step that completes its handshake, only if it was
\* never registered or closed before, and a Closed session stays Closed.
C13_LifecycleOneWay ==
  [][ \A c \in Ctx :
        /\ \/ Phase(ctx', sessions', c) = Phase(ctx, sessions, c)
           \/ <<Phase(ctx, sessions, c), Phase(ctx', sessions', c)>> \in LifecycleMoves
        /\ (RegisteredIn(sessions', c) /\ ~RegisteredIn(sessions, c)) =>
             /\ ~IsSome(ctx[c].id) /\ ~ctx[c].initialized /\ ctx[c].open
             /\ ctx'[c].initialized /\ ctx'[c].open
             /\ IsSome(ctx'[c].id) /\ MapGet(sessions', Val(ctx'[c].id)) = c ]_vars

\* one session went through the whole lifecycle and is Closed, after which
\* another one became Ready
C13_Witness ==
  \E c \in Ctx, d \in Ctx :
    /\ Phase(ctx, sessions, c) = "Closed" /\ IsSome(ctx[c].id)
    /\ Phase(ctx, sessions, d) = "Ready"
    /\ proc.state = "closing"

\* --------------------------------------------------------------------- C14
\* C14: a request is handed to a session's transport (handleRequest) only
\* after that session's readiness promise has resolved; while the promise is
\* pending, or after it rejected, nothing is forwarded to that transport.
C14_ForwardOnlyWhenReady ==
  /\ [](\A r \in Req : req[r].fwd # 0 => ctx[req[r].fwd].ready = "resolved")
  /\ [][ \A r \in Req :
          (req[r].fwd = 0 /\ req'[r].fwd # 0) =>
            /\ req[r].pc = "awaitReady" /\ req'[r].fwd = req[r].session
            /\ ctx[req[r].session].ready = "resolved" ]_vars

\* one request has been forwarded to a ready session while another one is
\* still waiting for a session whose attachment is pending
C14_Witness ==
  \E r \in Req, w \in Req :
    /\ req[r].pc = "forwarded" /\ req[r].fwd # 0
    /\ req[w].pc = "awaitReady" /\ req[w].fwd = 0
    /\ ctx[req[w].session].ready = "pending"

\* --------------------------------------------------------------------- C15
\* shutdownSessions runs in this step
ShutdownStep ==
  \/ proc.state = "running" /\ proc'.state = "closing"
  \/ \E c \in Ctx : ClosedInStep(c)

\* C15: shutdownSessions calls transport.close() once for every session that
\* is in the registry when it is called, also when some of these calls fail;
\* it completes without raising, and the registry is empty when it has run.
C15_ShutdownClosesAll ==
  /\ [](proc.drain # "rejected")
  /\ [][ ShutdownStep =>
          /\ \A c \in Ctx :
                ctx'[c].closeCalls =
                  ctx[c].closeCalls + (IF RegisteredIn(sessions, c) THEN 1 ELSE 0)
          /\ proc'.drain = "fulfilled"
          /\ sessions' = EmptyMap ]_vars

\* two sessions were registered when the signal came; closing the first
\* failed, the second was closed all the same, and the registry is empty
C15_Witness ==
  /\ proc.state = "closing" /\ proc.drain = "fulfilled"
  /\ sessions = EmptyMap
  /\ ctx[1].closeCalls = 1 /\ ctx[1].open
  /\ ctx[2].closeCalls = 1 /\ ~ctx[2].open
  /\ closedIds = {"s1", "s2"}

\* --------------------------------------------------------------------- C16
\* C16: under every interleaving of requests, readiness and close, the
\* registry never holds an entry for a session whose transport has been
\* closed; an entry leaves the registry only in a step that closes that very
\* session, and a request dispatched to a session that was closed while the
\* request was waiting does not bring any entry back.
C16_NoDanglingEntry ==
  /\ [](\A k \in DOMAIN sessions : ctx[sessions[k]].open)
  /\ [][ /\ \A k \in DOMAIN sessions :
              k \notin DOMAIN sessions' => ClosedInStep(sessions[k])
         /\ \A r \in Req :
              (DispatchStep(r) /\ ~ctx[req[r].session].open) => sessions' = sessions ]_vars

\* a request that was waiting for a session while it was closed has been
\* dispatched to it afterwards, and a session whose creation was not complete
\* at that time is registered and open
C16_Witness ==
  \E r \in Req, c \in Ctx, d \in Ctx :
    /\ req[r].pc = "forwarded" /\ req[r].fwd = c /\ ~ctx[c].open
    /\ ~RegisteredIn(sessions, c)
    /\ RegisteredIn(sessions, d) /\ ctx[d].open

\* --------------------------------------------------------------------- C17
\* C17: every registry entry under key k belongs to a session whose id is k,
\* whose transport has completed the handshake under k and whose readiness
\* promise has resolved; a session whose attachment is pending or has failed
\* is not in the registry and has no id yet.
C17_NoHalfInitializedEntry ==
  /\ \A k \in DOMAIN sessions :
       LET c == sessions[k] IN
         /\ c \in Ctx /\ ctx[c].used
         /\ ctx[c].id = Some(k) /\ ctx[c].tsid = Some(k) /\ ctx[c].initialized
         /\ ctx[c].ready = "resolved"
  /\ \A c \in Ctx :
       (ctx[c].used /\ ctx[c].ready # "resolved") =>
         (~RegisteredIn(sessions, c) /\ ~IsSome(ctx[c].id))

\* a lookup has found the entry of a ready session while another session is
\* still becoming ready and is not registered
C17_Witness ==
  \E r \in Req, k \in DOMAIN sessions, d \in Ctx :
    /\ req[r].pc = "awaitReady" /\ req[r].sid = HdrString(k)
    /\ req[r].session = sessions[k]
    /\ ctx[d].used /\ ctx[d].ready = "pending" /\ ~RegisteredIn(sessions, d)

\* --------------------------------------------------------------------- C18
\* C18: every session the registry creates has a protocol engine and a
\* transport of its own: no engine and no transport belongs to two sessions.
C18_SessionsAreIsolated ==
  \A c \in Ctx, d \in Ctx :
    (c # d /\ ctx[c].used /\ ctx[d].used) =>
      /\ ctx[c].engine # 0 /\ ctx[c].transport # 0
      /\ ctx[c].engine # ctx[d].engine
      /\ ctx[c].transport # ctx[d].transport
      /\ ctx[c].engine # ctx[d].transport

\* two sessions are Ready side by side
C18_Witness ==
  /\ \A c \in {1, 2} : ReachedReady(c) /\ ctx[c].open /\ RegisteredIn(sessions, c)
  /\ ctx[1].engine # ctx[2].engine

\* --------------------------------------------------------------------- C19
\* the transport of session c has been given a cause to close: the client
\* disconnected or ended the session, or transport.close() was called
ClosureCause(c) ==
  /\ ReachedReady(c)
  /\ ctx[c].peer # "connected" \/ ctx[c].closeCalls > 0

\* C19: a session that reached Ready is removed from the registry after each
\* of the closure causes (client disconnect, explicit close, protocol-level
\* termination): once the cause has occurred, the session's id is eventually
\* absent from the registry.
C19_ClosureRemovesSession ==
  \A c \in Ctx :
    ClosureCause(c) ~> (ReachedReady(c) /\ Val(ctx[c].id) \notin DOMAIN sessions)

\* --------------------------------------------------------------------- C20
\* GET /health is handled for slot r in this step
HealthStep(r) == req[r].pc = "idle" /\ req'[r].body = "health"
HealthResponse == [status |-> 200, body |-> [ok |-> TRUE, mcp |-> "/mcp"], sent |-> 1]

\* C20: every GET /health is answered 200 with {"ok": true, "mcp": "/mcp"},
\* with or without credentials, in every server state, also after any
\* number of earlier requests from the same client.
C20_HealthAlways200 ==
  [][ \A r \in Req : HealthStep(r) => res'[r] = HealthResponse ]_vars

\* --------------------------------------------------------------------- C21
InternalErrorResponse ==
  [status |-> 500, body |-> [error |-> "Internal Server Error"], sent |-> 1]

C22_FatalLeadsToExit ==
  (proc.fatal # "none") ~> (proc.state = "exited" /\ proc.exitCode # 0)

\* --------------------------------------------------------------------- C23
\* the gate answered request r that no key could be obtained
ResolverFailed(r) ==
  /\ res[r].status = 401
  /\ res[r].body = [error |-> "Invalid token",
                    detail |-> "error in secret or public key callback"]

\* C23: the v2 key set is always asked first; the v1 key set is asked only
\* after v2 gave no key; the key v2 gives is the one used whenever v2 gives
\* one; key resolution fails only when both sources gave no key.
C23_PrimaryThenSecondary ==
  \A r \in Req :
    /\ req[r].jwks \in {<<>>, <<"v2">>, <<"v2", "v1">>}
    /\ Len(req[r].found) <= Len(req[r].jwks)
    /\ Len(req[r].jwks) = 2 => (Len(req[r].found) >= 1 /\ ~req[r].found[1])
    /\ (Len(req[r].found) >= 1 /\ req[r].found[1]) =>
         /\ req[r].jwks = <<"v2">>
         /\ req[r].key = JwtOf(req[r]).kid /\ Val(req[r].key) \in V2Keys
    /\ req[r].found = <<FALSE, TRUE>> =>
         (req[r].key = JwtOf(req[r]).kid /\ Val(req[r].key) \in V1Keys)
    /\ ResolverFailed(r) <=> req[r].found = <<FALSE, FALSE>>
    /\ IsSome(req[r].key) <=> (req[r].found # <<>> /\ req[r].found[Len(req[r].found)])

\* a token signed with a key only the v1 key set publishes was verified with
\* that key after the v2 key set had been asked
C23_Witness ==
  \E r \in Req :
    /\ req[r].jwks = <<"v2", "v1">> /\ req[r].found = <<FALSE, TRUE>>
    /\ req[r].key = Some("kC") /\ IsSome(req[r].user)

\* --------------------------------------------------------------------- C24
\* C24: when neither key set gives a key (unknown key id, or the endpoints
\* cannot be reached) the request is answered 401 and nothing else: the
\* policy is not consulted and the request never reaches the handler.
C24_FailClosed ==
  \A r \in Req :
    req[r].found = <<FALSE, FALSE>> =>
      /\ res[r].status = 401 /\ res[r].sent = 1
      /\ req[r].pc = "done"
      /\ req[r].policyCalls = 0 /\ req[r].nextCalls = 0
      /\ ~IsSome(req[r].user) /\ req[r].session = 0 /\ req[r].fwd = 0

\* an otherwise valid token was refused because no endpoint gave its key
C24_Witness ==
  \E r \in Req :
    /\ req[r].auth = Some(Bearer("tRole"))
    /\ req[r].found = <<FALSE, FALSE>> /\ res[r].status = 401

\* --------------------------------------------------------------------- C25
\* the token of request r carries a valid signature of the key the gate
\* resolved for it
ValidSignature(r) ==
  /\ PresentsJwt(r) /\ IsSome(req[r].key)
  /\ JwtOf(req[r]).alg = "RS256" /\ JwtOf(req[r]).signedBy = Val(req[r].key)

C26_PolicySetsNonEmpty ==
  /\ config.allowedRoles # {} /\ config.allowedScopes # {}
  /\ ~IsSome(env.ALLOWED_ROLES) =>
       config.allowedRoles = {toLowerCase(x) : x \in Range(defaultRoles)}
  /\ ~IsSome(env.ALLOWED_SCOPES) =>
       config.allowedScopes = {toLowerCase(x) : x \in Range(defaultScopes)}

\* --------------------------------------------------------------------- C27
\* a port setting is well formed: a decimal number from 0 to 65535
WellFormedPort(o) ==
  ~IsSome(o) \/ LET s == Val(o) IN
                  /\ s # <<>> /\ DigitPrefix(s) = s /\ DigitsValue(s) <= MaxPort
\* a rate-limit setting is well formed: a positive decimal integer
WellFormedRate(o) ==
  ~IsSome(o) \/ LET s == Val(o) IN s # <<>> /\ DigitPrefix(s) = s /\ DigitsValue(s) > 0
WellFormedEnv(e) ==
  /\ IsSome(e.TENANT_ID) /\ Val(e.TENANT_ID) # <<>>
  /\ IsSome(e.AUDIENCE) /\ Len(Val(e.AUDIENCE)) > 3
  /\ WellFormedPort(e.PORT)
  /\ WellFormedRate(e.RATE_LIMIT_WINDOW_MS) /\ WellFormedRate(e.RATE_LIMIT_MAX)

\* C27: the configuration is validated at startup and a malformed value
\* (tenant, audience, port, rate-limit window or ceiling) prevents startup:
\* the server is never listening with a malformed configuration value.
C27_MalformedConfigPreventsStartup ==
  proc.state = "running" => WellFormedEnv(env)

\* --------------------------------------------------------------------- C28
\* the token has no key identifier, or names an algorithm other than RS256
NoKidOrWrongAlg(r) ==
  PresentsJwt(r) /\ (~IsSome(JwtOf(req[r]).kid) \/ JwtOf(req[r]).alg # "RS256")

\* C28: a token without a key identifier, or whose algorithm is not RS256, is
\* rejected upfront: it is answered 401 and no key-set source is asked for it.
C28_RejectedWithoutKeyLookup ==
  \A r \in Req :
    NoKidOrWrongAlg(r) =>
      /\ req[r].jwks = <<>>
      /\ req[r].pc = "done" => res[r].status = 401

\* --------------------------------------------------------------------- C29
\* the audiences the deployment names: the primary and, when set, the second
ConfiguredAudiences ==
  {config.audience} \cup (IF IsSome(env.AUDIENCE_ALT) THEN {Val(env.AUDIENCE_ALT)} ELSE {})
\* the verifier has decided on a token that is sound apart from its audience
DecidedOnAudience(r) ==
  /\ ValidSignature(r) /\ req[r].pc = "done"
  /\ ~JwtOf(req[r]).payload.expired /\ JwtOf(req[r]).payload.iss \in ISSUERS
VerifierAccepted(r) == req[r].policyCalls = 1 /\ res[r].status # 401

\* C29: the verifier accepts a token whose audience is the configured primary
\* or the configured secondary audience and rejects every other audience.
C29_PrimaryOrSecondaryAudience ==
  \A r \in Req :
    DecidedOnAudience(r) =>
      (VerifierAccepted(r) <=> JwtOf(req[r]).payload.aud \in ConfiguredAudiences)

\* --------------------------------------------------------------------- C30
\* the gate has refused the request's token: verification failed
FailedVerification(r) ==
  /\ IsSome(ExtractToken(req[r].auth)) /\ ~NoToken(ExtractToken(req[r].auth))
  /\ res[r].sent = 1 /\ res[r].status = 401

\* C30: the 401 response does not tell the caller why verification failed:
\* any two requests whose tokens fail verification get the same response.
C30_UniformRejection ==
  \A r1, r2 \in Req :
    (FailedVerification(r1) /\ FailedVerification(r2)) => res[r1].body = res[r2].body

\* --------------------------------------------------------------------- C31
\* the positions of a request inside verifyBearer
GatePcs == {"gate", "jwksV2", "jwksV1"}
\* this step is a step of verifyBearer for request r
GateStep(r) == req[r].pc \in GatePcs /\ req'[r] # req[r]

\* C31: the gate is a pure guard: whatever its outcome (401, 403, proceed), a
\* step of verifyBearer leaves the session registry, the session contexts,
\* the configuration, the process and every other request as they were; of
\* the request itself it changes only the claims attachment, and only when
\* the request proceeds.
C31_GateIsPureGuard ==
  [][\A r \in Req :
       GateStep(r) =>
         /\ sessions' = sessions /\ ctx' = ctx /\ issued' = issued
         /\ closedIds' = closedIds
         /\ config' = config /\ env' = env /\ proc' = proc
         /\ \A q \in Req \ {r} : req'[q] = req[q] /\ res'[q] = res[q]
         /\ req'[r].auth = req[r].auth /\ req'[r].sid = req[r].sid
         /\ req'[r].body = req[r].body
         /\ req'[r].user # req[r].user =>
              /\ req'[r].pc = "handler" /\ res'[r] = res[r]
              /\ req'[r].nextCalls = req[r].nextCalls + 1
              /\ req'[r].user = Some(JwtOf(req[r]).payload)]_vars

\* the gate has let one request through and refused another with 403 while a
\* session is registered
C31_Witness ==
  \E r, q \in Req :
    /\ req[r].pc = "handler" /\ IsSome(req[r].user)
    /\ req[q].pc = "done" /\ res[q].status = 403 /\ ~IsSome(req[q].user)
    /\ DOMAIN sessions # {}

\* --------------------------------------------------------------------- C32
\* context c completes its handshake in this step: it gets its id
BecameReady(c) == ~IsSome(ctx[c].id) /\ IsSome(ctx'[c].id)
\* the step inserts the entry of a session that became ready, and only that
InsertAtReady ==
  \E c \in Ctx :
    /\ BecameReady(c) /\ Val(ctx'[c].id) \notin DOMAIN sessions
    /\ sessions' = MapSet(sessions, Val(ctx'[c].id), c)
\* the step removes entries, each of a session it closes, and adds none
RemoveAtClose ==
  /\ DOMAIN sessions' \subseteq DOMAIN sessions
  /\ \A k \in DOMAIN sessions' : sessions'[k] = sessions[k]
  /\ \A k \in DOMAIN sessions \ DOMAIN sessions' : ClosedInStep(sessions[k])
\* server.connect of context c fails in this step
ConnectFailStep(c) == ctx[c].ready = "pending" /\ ctx'[c].ready = "rejected"
\* the steps that are neither a handshake nor a close: the lookup, the
\* dispatch of a request that is no handshake, a failed attachment
LeavesRegistryAlone ==
  /\ \A r \in Req : HandlerStep(r) => sessions' = sessions
  /\ \A r \in Req : (DispatchStep(r) /\ ~BecameReady(req[r].session)) => sessions' = sessions
  /\ \A c \in Ctx : ConnectFailStep(c) => sessions' = sessions

\* C32 as stated: the registry's keys change only by the insert of a session
\* that becomes ready and by the remove of a session that closes; the lookup,
\* the dispatch, the shutdown and the handling of a failed attachment do not
\* change the set of keys.
C32_OnlyReadyAndClose ==
  [][ /\ DOMAIN sessions' # DOMAIN sessions => (InsertAtReady \/ RemoveAtClose)
      /\ LeavesRegistryAlone
      /\ ShutdownStep => DOMAIN sessions' = DOMAIN sessions ]_vars

\* C32, amended: the registry's keys change only by the insert of a session
\* that becomes ready and by shutdownSessions, which removes every entry and
\* calls close on each session it removed; the lookup, the dispatch of a
\* request that is no handshake and the handling of a failed attachment do
\* not change the registry.
C32_OnlyReadyAndShutdown ==
  [][ /\ DOMAIN sessions' # DOMAIN sessions =>
           \/ InsertAtReady /\ ~ShutdownStep
           \/ RemoveAtClose /\ ShutdownStep /\ sessions' = EmptyMap
      /\ LeavesRegistryAlone ]_vars

\* a session was inserted, the attachment of another one has failed, and the
\* shutdown has removed the entry
C32_Witness ==
  /\ proc.state = "closing" /\ sessions = EmptyMap
  /\ closedIds = {"s1"}
  /\ \E c \in Ctx : ctx[c].ready = "rejected"

\* --------------------------------------------------------------------- C33
\* the first call of shutdown happens in this step
ShutdownBegins == proc.state = "running" /\ proc'.state = "closing"
\* that call comes from the uncaughtException handler
ByUncaughtException == proc.fatal # "uncaughtException" /\ proc'.fatal = "uncaughtException"

\* C33: the process exits only after shutdownSessions has settled, without
\* an error escaping it; the exit status is 0 when SIGTERM or SIGINT started
\* the shutdown and 1 when an uncaught exception did; and a session whose
\* close fails does not keep the HTTP server from being closed.
C33_DrainThenExit ==
  /\ [](proc.state \in {"closing", "exited"} => proc.drain = "fulfilled")
  /\ [](proc.state = "running" => proc.drain = "none")
  /\ [][ /\ ShutdownBegins =>
              proc'.exitCode = (IF ByUncaughtException THEN 1 ELSE 0)
         /\ proc.state # "running" => proc'.exitCode = proc.exitCode
         /\ proc'.state = "exited" => proc.state \in {"closing", "exited"}
         /\ ShutdownStep => (proc'.state = "closing" /\ sessions' = EmptyMap) ]_vars

\* an uncaught exception started the shutdown, closing one session failed,
\* and the process has exited with status 1
C33_Witness ==
  /\ proc.state = "exited" /\ proc.exitCode = 1 /\ proc.fatal = "uncaughtException"
  /\ \E c \in Ctx : ctx[c].closeCalls = 1 /\ ctx[c].open

\* --------------------------------------------------------------------- C34
\* what the gate has done for request r so far: responses sent by it, and
\* calls of next()
GateOutcomes(q, s) == q.nextCalls + (IF s.status \in {401, 403} THEN s.sent ELSE 0)

\* C34: for every request that enters verifyBearer exactly one of three
\* things happens, once: a 401 is sent, a 403 is sent, or next() is called.
\* Inside the gate nothing has happened yet; the request leaves the gate in
\* the step that produces the one outcome; a response of the gate and a call
\* of next() never come together, and no second response follows.
C34_ExactlyOneOutcome ==
  /\ [](\A r \in Req :
          /\ req[r].pc \in GatePcs => (res[r].sent = 0 /\ req[r].nextCalls = 0)
          /\ req[r].pc \notin GatePcs \cup {"idle"} => GateOutcomes(req[r], res[r]) = 1
          /\ req[r].nextCalls = 1 => res[r].status \notin {401, 403}
          /\ res[r].sent <= 1)
  /\ [][\A r \in Req :
          GateStep(r) =>
            /\ req'[r].pc \in GatePcs \/ GateOutcomes(req'[r], res'[r]) = 1
            /\ res'[r].sent = 1 => (res'[r].status \in {401, 403} /\ req'[r].pc = "done")
            /\ req'[r].nextCalls = 1 => (res'[r] = res[r] /\ req'[r].pc = "handler")]_vars

\* the gate has answered a verified token with 403, once, and has not
\* called next()
C34_Witness ==
  \E r \in Req :
    /\ req[r].pc = "done" /\ req[r].verifyCalls = 1 /\ req[r].policyCalls = 1
    /\ res[r].status = 403 /\ res[r].sent = 1 /\ req[r].nextCalls = 0

\* --------------------------------------------------------------------- C35
\* request r is handed to a transport (transport.handleRequest) in this step
HandedOver(r) == req[r].fwd = 0 /\ req'[r].fwd # 0

\* C35: a request is never handed to a transport that has been closed: when
\* the session found by the lookup is closed or deregistered while the
\* request waits for `await session.ready`, the request is not handed to
\* that session's transport afterwards.
C35_NoForwardToClosed ==
  [][\A r \in Req :
       HandedOver(r) =>
         /\ ctx[req'[r].fwd].open
         /\ IsSome(ctx[req'[r].fwd].id) => RegisteredIn(sessions, req'[r].fwd)]_vars

\* --------------------------------------------------------------------- C36
\* C36: once shutdownSessions has run the registry stays empty, and every
\* session that exists when it runs has its transport closed by it, the
\* sessions that are created but not yet registered included; none of them
\* registers itself afterwards.
C36_ShutdownIsFinal ==
  /\ [](proc.state # "running" => sessions = EmptyMap)
  /\ [][ /\ ShutdownBegins => \A c \in Ctx : ctx[c].used => ctx'[c].closeCalls >= 1
         /\ proc.state # "running" => \A c \in Ctx : ~BecameReady(c) ]_vars

\* --------------------------------------------------------------------- C37
\* the attachment of the engine to the transport of context c has failed
AttachFailed(c) == ctx[c].used /\ ctx[c].ready = "rejected"

\* C37: when server.connect fails for a new session, the request that
\* created the session is not handed to the transport, the failure reaches
\* the caller as a 500, and the registry has no entry for that session, then
\* and ever after.
C37_AttachFailureIs500 ==
  /\ [](\A c \in Ctx :
          AttachFailed(c) =>
            /\ ~RegisteredIn(sessions, c) /\ ~IsSome(ctx[c].id) /\ ~ctx[c].initialized
            /\ \A r \in Req : req[r].fwd # c
            /\ \A r \in Req :
                 (req[r].session = c /\ req[r].pc \notin {"awaitReady", "idle"}) =>
                   /\ req[r].pc = "done" /\ req[r].error = "ready"
                   /\ res[r].status = InternalErrorResponse.status
                   /\ res[r].body = InternalErrorResponse.body
                   /\ res[r].sent = 1)
  /\ [][\A c \in Ctx : AttachFailed(c) => AttachFailed(c)']_vars

\* the attachment failed for the session a request had created, the request
\* has been answered 500, and the session registered earlier is untouched
C37_Witness ==
  \E r \in Req, c \in Ctx, d \in Ctx :
    /\ AttachFailed(c) /\ req[r].session = c /\ req[r].pc = "done"
    /\ res[r].status = 500 /\ req[r].fwd = 0
    /\ RegisteredIn(sessions, d) /\ ctx[d].open /\ DOMAIN sessions = {"s1"}

\* --------------------------------------------------------------------- C38
\* C38: in the per-request variant the shared engine is attached to at most
\* one open transport at any time, whatever the interleaving of the requests,
\* and the transport of a request is closed when its response closes.
C38_OneOpenTransport ==
  /\ Cardinality(AttachedOpen) <= 1
  /\ \A c \in Ctx : (ctx[c].used /\ ctx[c].peer = "disconnected") => ~ctx[c].open

====
